---- MODULE Spec2Model ----
(***************************************************************************)
(* bevy-steering: context-map steering pipeline.                           *)
(*                                                                         *)
(* f32 values are modelled in fixed point: the integer ONE stands for 1.0. *)
(* Products and quotients round to nearest, as f32 arithmetic does.  A     *)
(* Vec3 is a triple <<x, y, z>> of fixed-point numbers, or NaNVec for a    *)
(* vector whose components are NaN.                                        *)
(***************************************************************************)
EXTENDS Integers, Sequences, FiniteSets, TLC

\* ------------------------------------------------------------------------
\* Bounds of the model
\* ------------------------------------------------------------------------
MaxTicks == 2
MaxTargets == 2
MaxObstacles == 2
MaxCalls == 3
MaxSeen == 3
MaxNeighbors == 2
Tol == 2

\* ------------------------------------------------------------------------
\* Program constants
\* ------------------------------------------------------------------------
ONE == 1000
NUM_SLOTS == 16
DANGER_SENSITIVITY == 50
F32_MAX == 1000000

Slots == 0..(NUM_SLOTS - 1)

\* Option<T>: None is the empty tuple, Some(x) the one-element tuple
None == <<>>

Some(x) == <<x>>

Unwrap(o) == o[1]

\* A Vec3 whose components are NaN
NaNVec == <<"NaN">>

BehaviorType ==
    <<"Alignment", "Approach", "Avoid", "Cohere", "Evasion", "Flee",
      "PathFollowing", "Pursuit", "Seek", "Separation", "Wander">>

Behaviors == {BehaviorType[k] : k \in 1..Len(BehaviorType)}

\* ------------------------------------------------------------------------
\* f32 helpers
\* ------------------------------------------------------------------------
Abs(x) == IF x < 0 THEN -x ELSE x

RoundDiv(a, b) ==
    IF a >= 0 THEN (2 * a + b) \div (2 * b)
    ELSE -((2 * (-a) + b) \div (2 * b))

FMul(a, b) == RoundDiv(a * b, ONE)

FMax(a, b) == IF a >= b THEN a ELSE b

FMin(a, b) == IF a <= b THEN a ELSE b

Clamp(x, lo, hi) == FMax(lo, FMin(x, hi))

RECURSIVE ISqrtSearch(_, _, _)
ISqrtSearch(n, lo, hi) ==
    IF lo >= hi THEN lo
    ELSE LET mid == (lo + hi + 1) \div 2
         IN  IF mid * mid <= n THEN ISqrtSearch(n, mid, hi)
             ELSE ISqrtSearch(n, lo, mid - 1)

ISqrt(n) == ISqrtSearch(n, 0, 46340)

\* f32::sqrt of a fixed-point number
FSqrt(x) == ISqrt(x * ONE)

\* f32 lerp: self + (rhs - self) * t
FLerp(a, b, t) == a + FMul(b - a, t)

\* ------------------------------------------------------------------------
\* Vec3
\* ------------------------------------------------------------------------
Vec3ZERO == <<0, 0, 0>>

VAdd(u, v) == <<u[1] + v[1], u[2] + v[2], u[3] + v[3]>>

VSub(u, v) == <<u[1] - v[1], u[2] - v[2], u[3] - v[3]>>

VNeg(u) == <<-u[1], -u[2], -u[3]>>

VScale(u, s) == <<FMul(u[1], s), FMul(u[2], s), FMul(u[3], s)>>

VDot(u, v) == RoundDiv(u[1] * v[1] + u[2] * v[2] + u[3] * v[3], ONE)

\* z component of the planar cross product: |u||v| sin of the angle from u to v
Cross2(u, v) == u[1] * v[3] - u[3] * v[1]

VCross(u, v) ==
    <<FMul(u[2], v[3]) - FMul(u[3], v[2]),
      FMul(u[3], v[1]) - FMul(u[1], v[3]),
      FMul(u[1], v[2]) - FMul(u[2], v[1])>>

\* Component-wise product
VMul(u, v) == <<FMul(u[1], v[1]), FMul(u[2], v[2]), FMul(u[3], v[3])>>

VClamp_Upper(u, lo, hi) == <<FMin(u[1], hi[1]), FMin(u[2], hi[2]), FMin(u[3], hi[3])>>

\* Vec3::clamp: self.max(min).min(max), component-wise
VClamp(u, lo, hi) ==
    <<FMin(FMax(u[1], lo[1]), hi[1]), FMin(FMax(u[2], lo[2]), hi[2]),
      FMin(FMax(u[3], lo[3]), hi[3])>>

VLength(u) == ISqrt(u[1] * u[1] + u[2] * u[2] + u[3] * u[3])

\* Vec3::normalize: 0/0 gives NaN components for the zero vector
VNormalize(u) ==
    LET len == VLength(u)
    IN  IF len = 0 THEN NaNVec
        ELSE <<RoundDiv(u[1] * ONE, len), RoundDiv(u[2] * ONE, len),
               RoundDiv(u[3] * ONE, len)>>

VNormalizeOrZero(u) ==
    LET len == VLength(u)
    IN  IF len = 0 THEN Vec3ZERO
        ELSE <<RoundDiv(u[1] * ONE, len), RoundDiv(u[2] * ONE, len),
               RoundDiv(u[3] * ONE, len)>>

\* ------------------------------------------------------------------------
\* SteeringTarget
\* ------------------------------------------------------------------------
CosTable ==
    <<1000, 924, 707, 383, 0, -383, -707, -924,
      -1000, -924, -707, -383, 0, 383, 707, 924>>

slot_to_dir(slot) ==
    <<CosTable[slot + 1], 0, CosTable[((slot + 12) % NUM_SLOTS) + 1]>>

ZeroMap == [i \in Slots |-> 0]

SteeringTargetDefault ==
    [interest_map |-> ZeroMap, danger_map |-> ZeroMap, speed |-> ONE, urgency |-> 0]

SteeringTargetZERO ==
    [interest_map |-> ZeroMap, danger_map |-> ZeroMap, speed |-> 0, urgency |-> 0]

\* The dot product stored as it is: a NaN stays NaN, a value above every
\* finite one
set_interest_NoMax(t, direction) ==
    [t EXCEPT !.interest_map =
        [i \in Slots |->
            IF direction = NaNVec THEN F32_MAX + 1
            ELSE VDot(slot_to_dir(i), direction)]]

\* slot_dir.dot(direction).max(0.0); f32::max returns 0.0 when the dot is NaN
set_interest(t, direction) ==
    [t EXCEPT !.interest_map =
        [i \in Slots |->
            IF direction = NaNVec THEN 0
            ELSE FMax(VDot(slot_to_dir(i), direction), 0)]]

add_danger_Overwrite(t, direction, intensity) ==
    [t EXCEPT !.danger_map =
        [i \in Slots |->
            IF direction = NaNVec THEN 0
            ELSE FMax(FMul(VDot(slot_to_dir(i), direction), intensity), 0)]]

add_danger(t, direction, intensity) ==
    [t EXCEPT !.danger_map =
        [i \in Slots |->
            IF direction = NaNVec THEN FMax(t.danger_map[i], 0)
            ELSE FMax(t.danger_map[i],
                      FMax(FMul(VDot(slot_to_dir(i), direction), intensity), 0))]]

set_speed(t, speed) == [t EXCEPT !.speed = Clamp(speed, 0, ONE)]

set_urgency(t, urgency) == [t EXCEPT !.urgency = Clamp(urgency, 0, ONE)]

SteeringTargetLerp(a, b, blend) ==
    [interest_map |-> [i \in Slots |-> FLerp(a.interest_map[i], b.interest_map[i], blend)],
     danger_map |-> [i \in Slots |-> FLerp(a.danger_map[i], b.danger_map[i], blend)],
     speed |-> FLerp(a.speed, b.speed, blend),
     urgency |-> FLerp(a.urgency, b.urgency, blend)]

interpolate_peak(values, peak_slot) ==
    LET window == [k \in 1..5 |-> (peak_slot + (k - 3) + NUM_SLOTS) % NUM_SLOTS]
        term(k) == VScale(slot_to_dir(window[k]), values[window[k]])
        sum_dir == VAdd(VAdd(VAdd(VAdd(term(1), term(2)), term(3)), term(4)), term(5))
        sum_weight == values[window[1]] + values[window[2]] + values[window[3]]
                      + values[window[4]] + values[window[5]]
    IN  IF sum_weight > 0 THEN VNormalizeOrZero(sum_dir)
        ELSE slot_to_dir(peak_slot)

\* ------------------------------------------------------------------------
\* CombinedSteeringTarget
\* ------------------------------------------------------------------------
CombinedZERO_Default == SteeringTargetDefault

CombinedZERO == SteeringTargetZERO

FoldStep_LastWins(acc, target) ==
    [interest_map |-> target.interest_map,
     danger_map |-> [i \in Slots |-> FMax(target.danger_map[i], acc.danger_map[i])],
     speed |-> FMin(acc.speed, target.speed),
     urgency |-> FMax(acc.urgency, target.urgency)]

FoldStep_MaxSpeed(acc, target) ==
    [interest_map |-> [i \in Slots |-> FMax(target.interest_map[i], acc.interest_map[i])],
     danger_map |-> [i \in Slots |-> FMax(target.danger_map[i], acc.danger_map[i])],
     speed |-> FMax(acc.speed, target.speed),
     urgency |-> FMax(acc.urgency, target.urgency)]

FoldStep(acc, target) ==
    [interest_map |-> [i \in Slots |-> FMax(target.interest_map[i], acc.interest_map[i])],
     danger_map |-> [i \in Slots |-> FMax(target.danger_map[i], acc.danger_map[i])],
     speed |-> FMin(acc.speed, target.speed),
     urgency |-> FMax(acc.urgency, target.urgency)]

RECURSIVE FoldTargets(_, _)
FoldTargets(acc, targets) ==
    IF targets = <<>> THEN acc
    ELSE FoldTargets(FoldStep(acc, Head(targets)), Tail(targets))

CombinedNew(targets) == FoldTargets(SteeringTargetDefault, targets)

RECURSIVE FoldMin(_, _, _)
FoldMin(m, acc, i) ==
    IF i = NUM_SLOTS THEN acc ELSE FoldMin(m, FMin(acc, m[i]), i + 1)

RECURSIVE FoldMax(_, _, _)
FoldMax(m, acc, i) ==
    IF i = NUM_SLOTS THEN acc ELSE FoldMax(m, FMax(acc, m[i]), i + 1)

MaskedInterest(inner, danger_sensitivity) ==
    LET min_danger == FoldMin(inner.danger_map, F32_MAX, 0)
        danger_threshold == min_danger + danger_sensitivity
    IN  [i \in Slots |->
            inner.interest_map[i]
            * (IF inner.danger_map[i] <= danger_threshold THEN 1 ELSE 0)]

TargetSlot(masked_interest) ==
    LET max_interest == FoldMax(masked_interest, -F32_MAX, 0)
        hits == {i \in Slots : masked_interest[i] >= max_interest}
    IN  IF hits = {} THEN 0
        ELSE CHOOSE i \in hits : \A j \in hits : i <= j

ResolvedSpeed_NoUrgency(inner) == inner.speed

ResolvedSpeed(inner) ==
    IF inner.urgency > 0 THEN FLerp(inner.speed, ONE, inner.urgency)
    ELSE inner.speed

into_heading(inner, danger_sensitivity) ==
    LET masked_interest == MaskedInterest(inner, danger_sensitivity)
        target_slot == TargetSlot(masked_interest)
        heading == interpolate_peak(masked_interest, target_slot)
    IN  VScale(heading, ResolvedSpeed(inner))

\* ------------------------------------------------------------------------
\* SteeringOutputs
\* ------------------------------------------------------------------------
SteeringOutputsDefault == [b \in Behaviors |-> None]

unwrap_or_default(entry) == IF entry = None THEN SteeringTargetDefault ELSE Unwrap(entry)

has_some(values) == \E b \in Behaviors : values[b] # None

RECURSIVE OnlySomeFrom(_, _)
OnlySomeFrom(values, k) ==
    IF k > Len(BehaviorType) THEN <<>>
    ELSE IF values[BehaviorType[k]] = None THEN OnlySomeFrom(values, k + 1)
         ELSE <<Unwrap(values[BehaviorType[k]])>> \o OnlySomeFrom(values, k + 1)

only_some(values) == OnlySomeFrom(values, 1)

\* EnumMap::iter yields every key of the enum, whether its value is Some or
\* None, so the zipped and de-duplicated key list is all of BehaviorType.
LerpKeys(self, other) == Behaviors

SteeringOutputsLerp(self, other, blend) ==
    [b \in Behaviors |->
        IF b \in LerpKeys(self, other)
        THEN Some(SteeringTargetLerp(unwrap_or_default(self[b]),
                                     unwrap_or_default(other[b]), blend))
        ELSE None]

\* ------------------------------------------------------------------------
\* SpeedMask / SpeedOverride / SpeedController
\* ------------------------------------------------------------------------
subtract_speed(mask, dir, amount) ==
    [i \in Slots |->
        FMax(mask[i] - FMul(amount, FMax(VDot(slot_to_dir(i), dir), 0)), 0)]

SpeedOverrideSet(current, value) == FMin(current, value)

SpeedOverrideReset_Keep(current) == current

SpeedOverrideReset(current) == ONE

ToObstacleDir(normals) ==
    LET sum == VAdd(normals[1], normals[2])
    IN  <<RoundDiv(-sum[1], 2), RoundDiv(-sum[2], 2), RoundDiv(-sum[3], 2)>>

Threat(dist, reference_distance) ==
    LET normalized_dist == Clamp(RoundDiv(dist * ONE, reference_distance), 0, ONE)
    IN  ONE - FMul(normalized_dist, normalized_dist)

ObstacleStep(mask, obstacle, controller) ==
    IF obstacle.impact_normals = None THEN mask
    ELSE subtract_speed(mask, ToObstacleDir(Unwrap(obstacle.impact_normals)),
                        FMul(controller.obstacle_weight,
                             Threat(obstacle.distance, controller.stopping_distance)))

RECURSIVE FoldObstacles(_, _, _)
FoldObstacles(mask, obstacles, controller) ==
    IF obstacles = <<>> THEN mask
    ELSE FoldObstacles(ObstacleStep(mask, Head(obstacles), controller),
                       Tail(obstacles), controller)

SpeedMaskFor(override, obstacles, controller) ==
    IF obstacles = None THEN [i \in Slots |-> override]
    ELSE FoldObstacles([i \in Slots |-> override], Unwrap(obstacles), controller)

\* ------------------------------------------------------------------------
\* SpeedMask::get_speed and move_agent
\* ------------------------------------------------------------------------
ANGLE_PER_SLOT == 393

WN == 8000

WN_ANGULAR == 6000

\* The slot at or just below the angle atan2(dir.z, dir.x)
SlotLow(dir) ==
    LET u == VNormalizeOrZero(<<dir[1], 0, dir[3]>>)
        below == {k \in Slots : Cross2(slot_to_dir(k), u) >= 0 /\ VDot(slot_to_dir(k), u) > 0}
    IN  IF u = Vec3ZERO \/ below = {} THEN 0
        ELSE CHOOSE k \in below :
                \A j \in below : VDot(slot_to_dir(j), u) <= VDot(slot_to_dir(k), u)

\* fract(angle / ANGLE_PER_SLOT); asin(x) = x + x^3/6 for the small angle left
SlotFract(dir) ==
    LET u == VNormalizeOrZero(<<dir[1], 0, dir[3]>>)
        x == RoundDiv(Cross2(slot_to_dir(SlotLow(dir)), u), ONE)
        theta == x + RoundDiv(FMul(FMul(x, x), x), 6)
    IN  IF u = Vec3ZERO THEN 0
        ELSE Clamp(RoundDiv(theta * ONE, ANGLE_PER_SLOT), 0, ONE)

get_speed(mask, dir) ==
    LET slot_low == SlotLow(dir)
        slot_high == (slot_low + 1) % NUM_SLOTS
        t == SlotFract(dir)
    IN  FMul(mask[slot_low], ONE - t) + FMul(mask[slot_high], t)

SteeringAgentDefault ==
    [locomotion_mode |-> "OmniDirectional",
     max_speed |-> 10 * ONE,
     max_force |-> <<100 * ONE, 100 * ONE, 100 * ONE>>,
     max_torque |-> <<100 * ONE, 100 * ONE, 100 * ONE>>,
     turn_priority |-> 0]

\* velocity_error * k: the force that would close the velocity error
DemandForce(target_velocity, body) ==
    VScale(VSub(target_velocity, body.linear_velocity), FMul(FMul(WN, WN), body.mass))

\* lateral_force / total_demand, or 0 when nothing is demanded
LateralDemand(force, body) ==
    LET lateral_force == VDot(force, body.right)
        total_demand == Abs(VDot(force, body.forward)) + Abs(lateral_force)
    IN  IF total_demand > 0 THEN RoundDiv(lateral_force * ONE, total_demand) ELSE 0

\* forward_suppression = 1.0 - lateral_demand * turn_priority
ForwardSuppression(agent, force, body) ==
    ONE - FMul(LateralDemand(force, body), agent.turn_priority)

\* agent_forward.dot(target_velocity.normalize_or_zero())
HeadingAlignment(body, target_velocity) ==
    VDot(body.forward, VNormalizeOrZero(target_velocity))

\* The forward force after suppression and after the alignment scaling, which
\* is applied only when the alignment is not negative
ForwardForce(agent, force, body, target_velocity) ==
    LET suppressed == FMul(VDot(force, body.forward), ForwardSuppression(agent, force, body))
        alignment == HeadingAlignment(body, target_velocity)
    IN  IF alignment >= 0 THEN FMul(suppressed, alignment) ELSE suppressed

AngleError_DefaultAxis(target_heading, body) ==
    VCross(body.forward, IF VLength(target_heading) = 0 THEN slot_to_dir(0)
                         ELSE VNormalizeOrZero(target_heading))

\* Dir3::new(target_heading).map(|d| agent_forward.cross(*d)).unwrap_or(Vec3::ZERO)
AngleError(target_heading, body) ==
    IF VLength(target_heading) = 0 THEN Vec3ZERO
    ELSE VCross(body.forward, VNormalizeOrZero(target_heading))

\* c_angular * angular_velocity
AngularDamping(body) == VMul(VScale(body.moment, 2 * WN_ANGULAR), body.angular_velocity)

\* The forces of move_agent once the target velocity is known
ForcesForVelocity(agent, target_heading, target_velocity, body) ==
    LET force == DemandForce(target_velocity, body)
        lateral_velocity == VDot(body.linear_velocity, body.right)
        lateral_impulse == VScale(VScale(body.right, -lateral_velocity), body.mass)
        k_angular == VScale(body.moment, FMul(WN_ANGULAR, WN_ANGULAR))
        torque == VSub(VMul(k_angular, AngleError(target_heading, body)),
                       AngularDamping(body))
        forward_force == ForwardForce(agent, force, body, target_velocity)
    IN  IF agent.locomotion_mode = "Directional"
        THEN [heading |-> target_heading,
              linear_impulse |-> Some(lateral_impulse),
              torque |-> Some(VClamp(torque, VNeg(agent.max_torque), agent.max_torque)),
              force |-> VClamp(VScale(body.forward, forward_force),
                               VNeg(agent.max_force), agent.max_force)]
        ELSE [heading |-> target_heading,
              linear_impulse |-> None,
              torque |-> None,
              force |-> VClamp(force, VNeg(agent.max_force), agent.max_force)]

\* target_velocity = max_speed * target_speed * target_heading
TargetVelocity(agent, target_heading, mask) ==
    VScale(target_heading, FMul(agent.max_speed, get_speed(mask, target_heading)))

\* The forces of move_agent once the heading is resolved
ForcesForHeading(agent, target_heading, mask, body) ==
    CHOOSE applied \in
        {ForcesForVelocity(agent, target_heading, target_velocity, body) :
            target_velocity \in {TargetVelocity(agent, target_heading, mask)}} : TRUE

\* What move_agent hands to Forces for one agent
MoveAgentFor(agent, target, mask, body) ==
    CHOOSE applied \in
        {ForcesForHeading(agent, target_heading, mask, body) :
            target_heading \in {into_heading(target, DANGER_SENSITIVITY)}} : TRUE

\* ------------------------------------------------------------------------
\* Sensing: Neighborhood and NearbyObstacles
\* ------------------------------------------------------------------------
\* f32::INFINITY: above every finite value of the model
INFINITY == 2000000

\* A collider entity is <<body, part>>: part `part` of the entity `body`
ColliderBody(collider) == collider[1]

EmptyMap == [x \in {} |-> None]

\* HashMap::insert
MapInsert(map, key, value) ==
    [x \in DOMAIN map \cup {key} |-> IF x = key THEN value ELSE map[x]]

\* distance() of a pair of colliders: None when the backend returns Err
QueryDistance(world, agent_collider, collider) ==
    IF <<agent_collider, collider>> \in world.unsupported THEN None
    ELSE Some(world.base_distance[collider] + 100 * (agent_collider[2] - 1))

\* The loop over the agent's colliders: the closest supported distance so far
RECURSIVE ClosestOver(_, _, _, _)
ClosestOver(closest, agent_colliders, collider, world) ==
    IF agent_colliders = <<>> THEN closest
    ELSE LET d == QueryDistance(world, Head(agent_colliders), collider)
         IN  IF d = None
             THEN ClosestOver(closest, Tail(agent_colliders), collider, world)
             ELSE IF Unwrap(d) < closest.distance
             THEN ClosestOver([distance |-> Unwrap(d),
                               closest_points |-> Some(<<Head(agent_colliders), collider>>)],
                              Tail(agent_colliders), collider, world)
             ELSE ClosestOver(closest, Tail(agent_colliders), collider, world)

\* An entry of the same entity that is strictly closer is kept
KeepExisting(neighbors, body, closest_distance) ==
    /\ body \in DOMAIN neighbors
    /\ neighbors[body].distance < closest_distance

\* The body of the loop over the candidates of the spatial query
NeighborStep(neighbors, candidate, agent, agent_colliders, world) ==
    LET body == ColliderBody(candidate)
        closest == ClosestOver([distance |-> INFINITY, closest_points |-> None],
                               agent_colliders, candidate, world)
    IN  IF candidate \notin world.colliders THEN neighbors
        ELSE IF body \notin world.neighbor_bodies THEN neighbors
        ELSE IF body = agent THEN neighbors
        ELSE IF KeepExisting(neighbors, body, closest.distance) THEN neighbors
        ELSE MapInsert(neighbors, body,
                       [entity |-> body, distance |-> closest.distance,
                        closest_points |-> closest.closest_points])

RECURSIVE FoldCandidates(_, _, _, _, _)
FoldCandidates(neighbors, candidates, agent, agent_colliders, world) ==
    IF candidates = <<>> THEN neighbors
    ELSE FoldCandidates(NeighborStep(neighbors, Head(candidates), agent, agent_colliders, world),
                        Tail(candidates), agent, agent_colliders, world)

NeighborhoodClear_Keep(neighbors) == neighbors

\* neighborhood.neighbors.clear()
NeighborhoodClear(neighbors) == EmptyMap

\* update_neighborhoods for one agent
NeighborhoodFor(previous, agent, agent_colliders, candidates, world) ==
    FoldCandidates(NeighborhoodClear(previous), candidates, agent,
                   SelectSeq(agent_colliders, LAMBDA c : c \in world.colliders), world)

\* The body of the loop over the shape hits of a detector
ObstacleHitStep(obstacles, hit, world) ==
    LET body == ColliderBody(hit.entity)
    IN  IF hit.entity \notin world.colliders THEN obstacles
        ELSE IF body \notin world.rigid_bodies THEN obstacles
        ELSE MapInsert(obstacles, body,
                       [entity |-> body, distance |-> hit.distance,
                        impact_normals |-> Some(<<hit.normal1, hit.normal2>>)])

RECURSIVE FoldHits(_, _, _)
FoldHits(obstacles, hits, world) ==
    IF hits = <<>> THEN obstacles
    ELSE FoldHits(ObstacleHitStep(obstacles, Head(hits), world), Tail(hits), world)

\* update_nearby_obstacles for one agent with detectors
NearbyObstaclesFor(previous, hits, world) == FoldHits(EmptyMap, hits, world)

\* obstacles.values(), in the order of the entities
RECURSIVE MapValuesFrom(_, _)
MapValuesFrom(map, k) ==
    IF k > INFINITY \/ \A x \in DOMAIN map : x < k THEN <<>>
    ELSE IF k \in DOMAIN map THEN <<map[k]>> \o MapValuesFrom(map, k + 1)
    ELSE MapValuesFrom(map, k + 1)

MapValues(map) == MapValuesFrom(map, 0)

\* ------------------------------------------------------------------------
\* World: agents, their components and the inputs read from the host
\* ------------------------------------------------------------------------
\* The steering agents of the scene
Agents == {1}

Point(x, z) == <<x * ONE, 0, z * ONE>>

\* Places the physics backend can have moved an agent to
Positions == {Point(0, 0), Point(3, 0)}

TargetPoint == Point(3, 4)

\* Behaviour components the host can attach, with their configuration
SeekConfigs == {[target |-> TargetPoint, target_radius |-> 5 * ONE]}

ApproachConfigs ==
    {[target |-> Point(0, 4), target_radius |-> 5 * ONE, slowdown_distance |-> 10 * ONE]}

FleeConfigs == {[target |-> TargetPoint, radius |-> 5 * ONE]}

Configs(b) ==
    CASE b = "Seek" -> SeekConfigs
      [] b = "Approach" -> ApproachConfigs
      [] b = "Flee" -> FleeConfigs
      [] OTHER -> {}

\* Behaviours whose component has an on_remove hook that clears the entry
ClearsOnRemove == {"Approach", "Evasion", "Flee", "Pursuit"}

\* Values a host system passes to SpeedOverride::set
HostSpeedValues == {300, 800}

\* Blend factors as stored by TemporalSmoothing::new (clamped to [0, 1])
BlendValues == {0, 500}

\* The scene: colliders <<body, part>>, the rigid bodies, those marked Neighbor
Scene ==
    [colliders |-> {<<1, 1>>, <<2, 1>>, <<2, 2>>, <<3, 1>>, <<4, 1>>, <<5, 1>>,
                    <<6, 1>>, <<7, 1>>, <<8, 1>>, <<9, 1>>},
     rigid_bodies |-> 1..8,
     neighbor_bodies |-> {1, 2},
     base_distance |-> [c \in (0..9) \X (1..2) |-> 100 * (9 - c[1]) + 500 * (c[2] - 1)],
     unsupported |-> {},
     agent_colliders |-> [a \in Agents |-> <<<<a, 1>>>>],
     candidates |-> [a \in Agents |-> <<>>],
     hits |-> [a \in Agents |-> <<>>]]

ShapeHit(collider, distance, slot) ==
    [entity |-> collider, distance |-> distance,
     normal1 |-> VNeg(slot_to_dir(slot)), normal2 |-> VNeg(slot_to_dir(slot))]

\* What the backend can report to the pipeline after a physics step
Worlds ==
    {Scene,
     [Scene EXCEPT
        !.candidates = [a \in Agents |-> <<<<a, 1>>, <<2, 1>>, <<2, 2>>, <<3, 1>>>>],
        !.hits = [a \in Agents |-> <<ShapeHit(<<3, 1>>, 5 * ONE, 0)>>]],
     [Scene EXCEPT
        !.candidates = [a \in Agents |-> <<<<2, 2>>>>],
        !.hits = [a \in Agents |->
                    <<ShapeHit(<<3, 1>>, 0, 4), ShapeHit(<<4, 1>>, 2 * ONE, 0)>>]]}

\* A body at rest with the identity rotation, unit mass and unit inertia
RestingBody ==
    [forward |-> <<0, 0, -ONE>>, right |-> <<ONE, 0, 0>>,
     linear_velocity |-> Vec3ZERO, angular_velocity |-> Vec3ZERO,
     mass |-> ONE, moment |-> <<ONE, ONE, ONE>>]

\* Rigid-body states the physics backend can leave an agent in
Bodies ==
    {RestingBody,
     [RestingBody EXCEPT !.forward = <<ONE, 0, 0>>, !.right = <<0, 0, ONE>>,
                         !.linear_velocity = <<2 * ONE, 0, 3 * ONE>>]}

\* SteeringAgent::default() and SteeringAgent::default().directional()
AgentModes ==
    {SteeringAgentDefault, [SteeringAgentDefault EXCEPT !.locomotion_mode = "Directional"]}

SpeedControllerDefault == [obstacle_weight |-> ONE, stopping_distance |-> 10 * ONE]

Orders(S) ==
    {o \in [1..Cardinality(S) -> S] : \A i, j \in 1..Cardinality(S) : o[i] = o[j] => i = j}

VARIABLES
    pc,                \* the system of the schedule that runs next
    tick,              \* number of fixed ticks started
    pending,           \* behaviour systems that have not run yet this tick
    smoothing,         \* TemporalSmoothing resource: None or the blend factor
    behaviors,         \* per agent: behaviour -> None or its component
    translation,       \* per agent: GlobalTransform translation
    outputs,           \* per agent: SteeringOutputs
    previous_outputs,  \* per agent: PreviousSteeringOutputs
    combined,          \* per agent: CombinedSteeringTarget, None before the first insert
    speed_override,    \* per agent: SpeedOverride
    speed_mask,        \* per agent: SpeedMask
    speed_controller,  \* per agent: SpeedController
    nearby_obstacles,  \* per agent: None or the sequence of ComputedObstacle values
    target_heading,    \* per agent: heading resolved by move_agent this tick
    set_values,        \* per agent: values passed to SpeedOverride::set this tick
    asserted,          \* per agent: some evaluator has set an entry since spawn
    steering_agent,    \* per agent: SteeringAgent
    body,              \* per agent: transform axes, velocities, mass of the rigid body
    forces,            \* per agent: what move_agent applied through Forces this tick
    world,             \* what the physics backend reports: colliders, query results, hits
    neighborhood,      \* per agent: Neighborhood, entity -> ComputedNeighbor
    tracking,          \* per agent: None or the state of its obstacle tracking
    call,              \* a call of a pure function: its arguments
    ret                \* and its result, None before the call

vars ==
    <<pc, tick, pending, smoothing, behaviors, translation, outputs,
      previous_outputs, combined, speed_override, speed_mask, speed_controller,
      nearby_obstacles, target_heading, set_values, asserted, steering_agent,
      body, forces, world, neighborhood, tracking, call, ret>>

pureVars == <<call, ret>>

worldVars == <<smoothing, speed_controller, nearby_obstacles, steering_agent>>

forceVars == <<body, forces>>

senseVars == <<world, neighborhood, tracking>>

\* ------------------------------------------------------------------------
\* Host: attach and detach behaviour components between ticks
\* ------------------------------------------------------------------------
Attach(a, b) ==
    /\ pc = "idle"
    /\ behaviors[a][b] = None
    /\ \E cfg \in Configs(b) : behaviors' = [behaviors EXCEPT ![a][b] = Some(cfg)]
    /\ UNCHANGED <<pc, tick, pending, translation, outputs, previous_outputs, combined,
                   speed_override, speed_mask, target_heading, set_values, asserted,
                   worldVars, forceVars, senseVars, pureVars>>

\* Removing the component runs its on_remove hook, if it has one
Detach(a, b) ==
    /\ pc = "idle"
    /\ behaviors[a][b] # None
    /\ behaviors' = [behaviors EXCEPT ![a][b] = None]
    /\ outputs' = IF b \in ClearsOnRemove
                  THEN [outputs EXCEPT ![a][b] = None]
                  ELSE outputs
    /\ UNCHANGED <<pc, tick, pending, translation, previous_outputs, combined,
                   speed_override, speed_mask, target_heading, set_values, asserted,
                   worldVars, forceVars, senseVars, pureVars>>

\* ------------------------------------------------------------------------
\* FixedPreUpdate
\* ------------------------------------------------------------------------
QueryMatches(b) == {a \in Agents : behaviors[a][b] # None}

reset_speed_override ==
    /\ pc = "idle"
    /\ tick < MaxTicks
    /\ tick' = tick + 1
    /\ speed_override' = [a \in Agents |-> SpeedOverrideReset(speed_override[a])]
    /\ set_values' = [a \in Agents |-> {}]
    /\ pending' = {b \in Behaviors : QueryMatches(b) # {}}
    /\ pc' = "setup"
    /\ UNCHANGED <<behaviors, translation, outputs, previous_outputs, combined,
                   speed_mask, target_heading, asserted, worldVars, forceVars, senseVars, pureVars>>

\* ------------------------------------------------------------------------
\* Sensing systems, first in the FixedUpdate chain
\* ------------------------------------------------------------------------
\* TrackNearbyObstacles just inserted: SetupObstacleTracking present, no detector
TrackingDefault == [setup |-> TRUE, detectors |-> 0, cast |-> FALSE]

\* The spawned detector has been through a physics step and has ShapeHits
DetectorsCast(track) ==
    IF track = None THEN None
    ELSE Some([Unwrap(track) EXCEPT !.cast = Unwrap(track).detectors > 0])

CanHit(track) == track # None /\ Unwrap(track).cast

\* NearbyObstacles::values() handed to speed_control
ObstacleValues(obstacles) ==
    IF obstacles = None THEN None ELSE Some(MapValues(Unwrap(obstacles)))

setup_obstacle_tracking ==
    /\ pc = "setup"
    /\ tracking' =
          [a \in Agents |->
              IF tracking[a] # None /\ Unwrap(tracking[a]).setup
              THEN Some([Unwrap(tracking[a]) EXCEPT !.setup = FALSE, !.detectors = @ + 1])
              ELSE tracking[a]]
    /\ pc' = "obstacles"
    /\ UNCHANGED <<tick, pending, behaviors, translation, outputs, previous_outputs,
                   combined, speed_override, speed_mask, target_heading, set_values,
                   asserted, worldVars, forceVars, world, neighborhood, pureVars>>

update_nearby_obstacles ==
    /\ pc = "obstacles"
    /\ nearby_obstacles' =
          [a \in Agents |->
              IF tracking[a] # None /\ Unwrap(tracking[a]).detectors > 0
              THEN Some(NearbyObstaclesFor(Unwrap(nearby_obstacles[a]), world.hits[a], world))
              ELSE nearby_obstacles[a]]
    /\ pc' = "neighbors"
    /\ UNCHANGED <<tick, pending, behaviors, translation, outputs, previous_outputs,
                   combined, speed_override, speed_mask, target_heading, set_values,
                   asserted, smoothing, speed_controller, steering_agent, forceVars,
                   senseVars, pureVars>>

update_neighborhoods ==
    /\ pc = "neighbors"
    /\ neighborhood' =
          [a \in Agents |->
              NeighborhoodFor(neighborhood[a], a, world.agent_colliders[a],
                              world.candidates[a], world)]
    /\ pc' = "behaviors"
    /\ UNCHANGED <<tick, pending, behaviors, translation, outputs, previous_outputs,
                   combined, speed_override, speed_mask, target_heading, set_values,
                   asserted, worldVars, forceVars, world, tracking, pureVars>>

\* ------------------------------------------------------------------------
\* Behaviour evaluators (BehaviorSystemSet, unordered among themselves)
\* ------------------------------------------------------------------------
\* The loop of seek::run over the matching agents in query order; seeks and
\* positions give each agent's Seek component and translation.  The arrival
\* branch ends in return: the agents after it in the order are not visited.
RECURSIVE SeekRun(_, _, _, _)
SeekRun(outs, order, seeks, positions) ==
    IF order = <<>> THEN outs
    ELSE LET a == Head(order)
             seek == Unwrap(seeks[a])
             to_target == VSub(seek.target, positions[a])
             distance == VLength(to_target)
         IN  IF distance < seek.target_radius
             THEN [outs EXCEPT ![a]["Seek"] = None]
             ELSE SeekRun(
                    [outs EXCEPT ![a]["Seek"] =
                        Some(set_interest(unwrap_or_default(outs[a]["Seek"]),
                                          VNormalize(to_target)))],
                    Tail(order), seeks, positions)

SeekLoop(outs, order) ==
    SeekRun(outs, order, [a \in Agents |-> behaviors[a]["Seek"]], translation)

\* The loop of flee::run; the out-of-range branch ends in return
RECURSIVE FleeRun(_, _, _, _)
FleeRun(outs, order, flees, positions) ==
    IF order = <<>> THEN outs
    ELSE LET a == Head(order)
             flee == Unwrap(flees[a])
             to_target == VSub(flee.target, positions[a])
             distance == VLength(to_target)
         IN  IF distance >= flee.radius
             THEN [outs EXCEPT ![a]["Flee"] = None]
             ELSE FleeRun(
                    [outs EXCEPT ![a]["Flee"] =
                        Some(set_interest(unwrap_or_default(outs[a]["Flee"]),
                                          IF VNormalize(to_target) = NaNVec THEN NaNVec
                                          ELSE VNeg(VNormalize(to_target))))],
                    Tail(order), flees, positions)

FleeLoop(outs, order) ==
    FleeRun(outs, order, [a \in Agents |-> behaviors[a]["Flee"]], translation)

ApproachArrived(a) ==
    LET approach == Unwrap(behaviors[a]["Approach"])
    IN  VLength(VSub(approach.target, translation[a])) < approach.target_radius

ArrivalSpeed_Linear(distance, slowdown_distance) ==
    Clamp(RoundDiv(distance * ONE, slowdown_distance), 0, ONE)

\* (distance / slowdown_distance).sqrt().clamp(0.0, 1.0)
ArrivalSpeed(distance, slowdown_distance) ==
    Clamp(FSqrt(RoundDiv(distance * ONE, slowdown_distance)), 0, ONE)

ApproachSpeed(a) ==
    LET approach == Unwrap(behaviors[a]["Approach"])
        distance == VLength(VSub(approach.target, translation[a]))
    IN  ArrivalSpeed(distance, approach.slowdown_distance)

ApproachOutputs(outs, a) ==
    IF behaviors[a]["Approach"] = None THEN outs[a]
    ELSE IF ApproachArrived(a) THEN [outs[a] EXCEPT !["Approach"] = None]
    ELSE [outs[a] EXCEPT !["Approach"] =
            Some(set_interest(unwrap_or_default(outs[a]["Approach"]),
                              VNormalize(VSub(Unwrap(behaviors[a]["Approach"]).target,
                                              translation[a]))))]

Asserted(newOutputs) ==
    [a \in Agents |-> asserted[a] \/ has_some(newOutputs[a])]

seek_run ==
    /\ pc = "behaviors"
    /\ "Seek" \in pending
    /\ \E order \in Orders(QueryMatches("Seek")) :
          /\ outputs' = SeekLoop(outputs, order)
          /\ asserted' = Asserted(SeekLoop(outputs, order))
    /\ pending' = pending \ {"Seek"}
    /\ UNCHANGED <<pc, tick, behaviors, translation, previous_outputs, combined,
                   speed_override, speed_mask, target_heading, set_values,
                   worldVars, forceVars, senseVars, pureVars>>

flee_run ==
    /\ pc = "behaviors"
    /\ "Flee" \in pending
    /\ \E order \in Orders(QueryMatches("Flee")) :
          /\ outputs' = FleeLoop(outputs, order)
          /\ asserted' = Asserted(FleeLoop(outputs, order))
    /\ pending' = pending \ {"Flee"}
    /\ UNCHANGED <<pc, tick, behaviors, translation, previous_outputs, combined,
                   speed_override, speed_mask, target_heading, set_values,
                   worldVars, forceVars, senseVars, pureVars>>

approach_run ==
    /\ pc = "behaviors"
    /\ "Approach" \in pending
    /\ outputs' = [a \in Agents |-> ApproachOutputs(outputs, a)]
    /\ asserted' = Asserted([a \in Agents |-> ApproachOutputs(outputs, a)])
    /\ speed_override' =
          [a \in Agents |->
              IF behaviors[a]["Approach"] # None /\ ~ApproachArrived(a)
              THEN SpeedOverrideSet(speed_override[a], ApproachSpeed(a))
              ELSE speed_override[a]]
    /\ set_values' =
          [a \in Agents |->
              IF behaviors[a]["Approach"] # None /\ ~ApproachArrived(a)
              THEN set_values[a] \cup {ApproachSpeed(a)}
              ELSE set_values[a]]
    /\ pending' = pending \ {"Approach"}
    /\ UNCHANGED <<pc, tick, behaviors, translation, previous_outputs, combined,
                   speed_mask, target_heading, worldVars, forceVars, senseVars, pureVars>>

\* SMALL_THRESHOLD = 0.0001, in tenths of the smallest unit of the model
SMALL_THRESHOLD_TENTHS == 1

\* target_query.get(target_entity): Ok when the entity exists and has both
\* a GlobalTransform and a LinearVelocity
TargetQueryGet(entities, e) ==
    IF e \in DOMAIN entities /\ entities[e].transform # None /\ entities[e].velocity # None
    THEN Some([transform |-> Unwrap(entities[e].transform),
               velocity |-> Unwrap(entities[e].velocity)])
    ELSE None

OnMissingTarget_Keep(outs, b) == outs

\* The else branch of both let-else lookups: outputs.clear(behavior)
OnMissingTarget(outs, b) == [outs EXCEPT ![b] = None]

\* (distance / max_speed).min(max_prediction), or max_prediction
PredictionTime(distance, max_speed, max_prediction) ==
    IF 10 * max_speed > SMALL_THRESHOLD_TENTHS
    THEN FMin(RoundDiv(distance * ONE, max_speed), max_prediction)
    ELSE max_prediction

\* The offset point of an offset pursuit
OffsetPoint(predicted_pos, agent_pos, offset) ==
    LET to_predicted == VSub(predicted_pos, agent_pos)
        horizontal_dir == VNormalizeOrZero(<<to_predicted[1], 0, to_predicted[3]>>)
        perpendicular == <<-horizontal_dir[3], 0, horizontal_dir[1]>>
    IN  IF 10 * Abs(offset) > SMALL_THRESHOLD_TENTHS
           /\ 10 * VDot(horizontal_dir, horizontal_dir) > SMALL_THRESHOLD_TENTHS
        THEN VAdd(predicted_pos, VScale(perpendicular, offset))
        ELSE predicted_pos

\* One iteration of the loop of pursuit::run, on the outputs of the pursuer
PursuitStep(outs, p, entities) ==
    IF p.target = None THEN OnMissingTarget(outs, "Pursuit")
    ELSE LET found == TargetQueryGet(entities, Unwrap(p.target))
         IN  IF found = None THEN OnMissingTarget(outs, "Pursuit")
             ELSE LET target_pos == Unwrap(found).transform
                      distance == VLength(VSub(target_pos, p.pos))
                      prediction_time ==
                          PredictionTime(distance, p.max_speed, p.max_prediction_time)
                      predicted_pos ==
                          OffsetPoint(VAdd(target_pos,
                                           VScale(Unwrap(found).velocity, prediction_time)),
                                      p.pos, p.offset)
                      direction == VNormalizeOrZero(VSub(predicted_pos, p.pos))
                  IN  IF distance < p.radius THEN [outs EXCEPT !["Pursuit"] = None]
                      ELSE IF 10 * VDot(direction, direction) < SMALL_THRESHOLD_TENTHS
                      THEN [outs EXCEPT !["Pursuit"] = None]
                      ELSE [outs EXCEPT !["Pursuit"] =
                              Some(set_interest(unwrap_or_default(outs["Pursuit"]),
                                                direction))]

\* One iteration of the loop of evasion::run, on the outputs of the evader
EvasionStep(outs, p, entities) ==
    IF p.target = None THEN OnMissingTarget(outs, "Evasion")
    ELSE LET found == TargetQueryGet(entities, Unwrap(p.target))
         IN  IF found = None THEN OnMissingTarget(outs, "Evasion")
             ELSE LET target_pos == Unwrap(found).transform
                      distance == VLength(VSub(target_pos, p.pos))
                      prediction_time ==
                          PredictionTime(distance, p.max_speed, p.max_prediction_time)
                      predicted_pos ==
                          VAdd(target_pos, VScale(Unwrap(found).velocity, prediction_time))
                      predicted_distance == VLength(VSub(predicted_pos, p.pos))
                      direction == VNormalizeOrZero(VSub(p.pos, predicted_pos))
                  IN  IF predicted_distance >= p.radius
                      THEN [outs EXCEPT !["Evasion"] = None]
                      ELSE IF 10 * VDot(direction, direction) < SMALL_THRESHOLD_TENTHS
                      THEN [outs EXCEPT !["Evasion"] = None]
                      ELSE [outs EXCEPT !["Evasion"] =
                              Some(set_interest(unwrap_or_default(outs["Evasion"]),
                                                direction))]

\* The loop over the collected pursuers: every branch ends in continue
RECURSIVE PursuitLoop(_, _, _)
PursuitLoop(all_outs, pursuers, entities) ==
    IF pursuers = <<>> THEN all_outs
    ELSE LET p == Head(pursuers)
         IN  PursuitLoop([all_outs EXCEPT ![p.entity] = PursuitStep(@, p, entities)],
                         Tail(pursuers), entities)

\* The loop over the collected evaders: every branch ends in continue
RECURSIVE EvasionLoop(_, _, _)
EvasionLoop(all_outs, evaders, entities) ==
    IF evaders = <<>> THEN all_outs
    ELSE LET p == Head(evaders)
         IN  EvasionLoop([all_outs EXCEPT ![p.entity] = EvasionStep(@, p, entities)],
                         Tail(evaders), entities)

SeparationIntensity_Far(distance, desired_radius) ==
    RoundDiv(distance * ONE, desired_radius)

\* intensity = 1.0 - (distance / desired_radius)
SeparationIntensity(distance, desired_radius) ==
    ONE - RoundDiv(distance * ONE, desired_radius)

\* The body of the loop of separation::run over the neighbours; 0.001 is
\* the smallest positive distance of the model
SeparationStep(acc, neighbor, agent_pos, separate) ==
    IF neighbor.closest_points = None THEN acc
    ELSE LET away == VSub(agent_pos, Unwrap(neighbor.closest_points)[2])
             distance == VLength(away)
             intensity == SeparationIntensity(distance, separate.desired_radius)
         IN  IF distance >= separate.desired_radius \/ distance < 1 THEN acc
             ELSE [combined_away |->
                      VAdd(acc.combined_away, VScale(VNormalize(away), intensity)),
                   max_intensity |-> FMax(acc.max_intensity, intensity),
                   max_urgency |->
                      IF distance < separate.panic_radius
                      THEN FMax(acc.max_urgency,
                                ONE - RoundDiv(distance * ONE, separate.panic_radius))
                      ELSE acc.max_urgency]

RECURSIVE SeparationFold(_, _, _, _)
SeparationFold(acc, neighbors, agent_pos, separate) ==
    IF neighbors = <<>> THEN acc
    ELSE SeparationFold(
            CHOOSE next \in {SeparationStep(acc, Head(neighbors), agent_pos, separate)} : TRUE,
            Tail(neighbors), agent_pos, separate)

\* separation::run for one agent
SeparationFor(outs, agent_pos, separate, neighbors) ==
    LET acc == SeparationFold([combined_away |-> Vec3ZERO, max_intensity |-> 0,
                               max_urgency |-> 0],
                              MapValues(neighbors), agent_pos, separate)
        away_dir == VNormalizeOrZero(acc.combined_away)
    IN  IF acc.max_intensity > 0
        THEN [outs EXCEPT !["Separation"] =
                Some(set_urgency(add_danger(set_interest(SteeringTargetDefault, away_dir),
                                            VNeg(away_dir), acc.max_intensity),
                                 acc.max_urgency))]
        ELSE [outs EXCEPT !["Separation"] = None]

RECURSIVE VSum(_)
VSum(vs) == IF vs = <<>> THEN Vec3ZERO ELSE VAdd(Head(vs), VSum(Tail(vs)))

AverageVelocity_WithSelf(neighbors, own_velocity) ==
    LET vs == MapValues(neighbors)
        total == VAdd(VSum([i \in 1..Len(vs) |-> vs[i].velocity]), own_velocity)
    IN  [i \in 1..3 |-> RoundDiv(total[i], Len(vs) + 1)]

\* The average of the neighbours' velocities; the agent's own LinearVelocity
\* is part of the query and is not read
AverageVelocity(neighbors, own_velocity) ==
    LET vs == MapValues(neighbors)
        total == VSum([i \in 1..Len(vs) |-> vs[i].velocity])
    IN  [i \in 1..3 |-> RoundDiv(total[i], Len(vs))]

\* alignment::run for one agent
AlignmentFor(outs, neighbors, own_velocity) ==
    IF DOMAIN neighbors = {} THEN [outs EXCEPT !["Alignment"] = None]
    ELSE LET avg_velocity == AverageVelocity(neighbors, own_velocity)
             speed == VLength(avg_velocity)
         IN  IF speed < 1 THEN [outs EXCEPT !["Alignment"] = None]
             ELSE [outs EXCEPT !["Alignment"] =
                     Some(set_interest(SteeringTargetDefault,
                                       [i \in 1..3 |-> RoundDiv(avg_velocity[i] * ONE, speed)]))]

\* Vec3::distance_squared
VDistanceSquared(u, v) == VDot(VSub(u, v), VSub(u, v))

\* Finds the nearest point on a line segment to a given point; a segment
\* with length_squared() < f32::EPSILON has equal ends
nearest_point_on_segment(point, segment_start, segment_end) ==
    LET segment == VSub(segment_end, segment_start)
        segment_length_sq == VDot(segment, segment)
        to_point == VSub(point, segment_start)
    IN  IF VLength(segment) = 0 THEN segment_start
        ELSE LET t == RoundDiv(VDot(to_point, segment) * ONE, segment_length_sq)
             IN  VAdd(segment_start, VScale(segment, Clamp(t, 0, ONE)))

\* The loop of nearest_point_on_path over the segments i .. len - 2; best
\* holds nearest_point, min_dist_sq and nearest_segment
RECURSIVE NearestFrom(_, _, _, _)
NearestFrom(path, position, i, best) ==
    IF i > Len(path) - 2 THEN best
    ELSE LET nearest_on_segment ==
                 nearest_point_on_segment(position, path[i + 1], path[i + 2])
             dist_sq == VDistanceSquared(position, nearest_on_segment)
         IN  NearestFrom(path, position, i + 1,
                CHOOSE next \in
                    {IF dist_sq < best.dist_sq
                     THEN [point |-> nearest_on_segment, dist_sq |-> dist_sq, segment |-> i]
                     ELSE best} : TRUE)

\* Nearest point on the path spine, the squared distance to it and the
\* segment index (counted from 0)
nearest_point_on_path(path, position) ==
    IF path = <<>> THEN None
    ELSE IF Len(path) = 1
         THEN Some([point |-> path[1], dist_sq |-> VDistanceSquared(position, path[1]),
                    segment |-> 0])
         ELSE Some(NearestFrom(path, position, 0,
                     [point |-> path[1], dist_sq |-> VDistanceSquared(position, path[1]),
                      segment |-> 0]))

TargetWalk_Overshoot(path, remaining_distance, current_point, current_segment, steps) ==
    IF remaining_distance > 0 /\ current_segment < Len(path) - 1
    THEN [point |-> VAdd(current_point,
                         VScale(VNormalizeOrZero(VSub(path[current_segment + 2],
                                                      current_point)),
                                remaining_distance)),
          steps |-> steps + 1]
    ELSE [point |-> current_point, steps |-> steps]

\* The while loop of target_point_ahead; steps counts its iterations
RECURSIVE TargetWalk(_, _, _, _, _)
TargetWalk(path, remaining_distance, current_point, current_segment, steps) ==
    IF remaining_distance > 0 /\ current_segment < Len(path) - 1
    THEN LET segment_end == path[current_segment + 2]
             to_end == VSub(segment_end, current_point)
             segment_length == VLength(to_end)
         IN  IF segment_length <= remaining_distance
             THEN TargetWalk(path, remaining_distance - segment_length, segment_end,
                             current_segment + 1, steps + 1)
             ELSE [point |-> VAdd(current_point,
                                  VScale(VNormalize(to_end), remaining_distance)),
                   steps |-> steps + 1]
    ELSE [point |-> current_point, steps |-> steps]

\* Target point ahead on the path from the given nearest point
target_point_ahead(pf, nearest_point, segment_index) ==
    IF pf.path = <<>> THEN nearest_point
    ELSE IF Len(pf.path) = 1 THEN pf.path[1]
         ELSE TargetWalk(pf.path, pf.target_distance, nearest_point, segment_index, 0).point

\* The point path_following::run steers to; 0.01 is 10 thousandths
SeekTarget(agent_pos, agent_velocity, pf) ==
    LET predicted_pos == VAdd(agent_pos, VScale(agent_velocity, pf.prediction_time))
        nearest == Unwrap(nearest_point_on_path(pf.path, predicted_pos))
        distance == FSqrt(nearest.dist_sq)
        target_point == target_point_ahead(pf, nearest.point, nearest.segment)
    IN  IF distance > pf.path_radius THEN nearest.point ELSE target_point

\* path_following::run for one agent
PathFollowingFor(outs, agent_pos, agent_velocity, pf) ==
    IF pf.path = <<>> THEN [outs EXCEPT !["PathFollowing"] = None]
    ELSE LET to_target ==
                 CHOOSE v \in {VSub(SeekTarget(agent_pos, agent_velocity, pf), agent_pos)}
                     : TRUE
         IN  IF VDot(to_target, to_target) < 10
             THEN [outs EXCEPT !["PathFollowing"] = None]
             ELSE [outs EXCEPT !["PathFollowing"] =
                     Some(set_interest(unwrap_or_default(outs["PathFollowing"]),
                                       VNormalize(to_target)))]

\* A host system in BehaviorSystemSet lowering the speed limit of an agent
HostSetSpeedOverride(a) ==
    /\ pc = "behaviors"
    /\ \E v \in HostSpeedValues :
          /\ v \notin set_values[a]
          /\ speed_override' = [speed_override EXCEPT ![a] = SpeedOverrideSet(@, v)]
          /\ set_values' = [set_values EXCEPT ![a] = @ \cup {v}]
    /\ UNCHANGED <<pc, tick, pending, behaviors, translation, outputs, previous_outputs,
                   combined, speed_mask, target_heading, asserted, worldVars, forceVars, senseVars, pureVars>>

\* ------------------------------------------------------------------------
\* Rest of the chained FixedUpdate systems
\* ------------------------------------------------------------------------
speed_control_Stale ==
    /\ pc = "behaviors"
    /\ pending = {}
    /\ pc' = "smoothing"
    /\ UNCHANGED <<tick, pending, behaviors, translation, outputs, previous_outputs,
                   combined, speed_override, speed_mask, target_heading, set_values,
                   asserted, worldVars, forceVars, senseVars, pureVars>>

speed_control ==
    /\ pc = "behaviors"
    /\ pending = {}
    /\ speed_mask' =
          [a \in Agents |->
              SpeedMaskFor(speed_override[a], ObstacleValues(nearby_obstacles[a]),
                           speed_controller[a])]
    /\ pc' = "smoothing"
    /\ UNCHANGED <<tick, pending, behaviors, translation, outputs, previous_outputs,
                   combined, speed_override, target_heading, set_values, asserted,
                   worldVars, forceVars, senseVars, pureVars>>

temporal_smoothing ==
    /\ pc = "smoothing"
    /\ outputs' =
          IF smoothing = None THEN outputs
          ELSE [a \in Agents |->
                  SteeringOutputsLerp(outputs[a], previous_outputs[a], Unwrap(smoothing))]
    /\ pc' = "previous"
    /\ UNCHANGED <<tick, pending, behaviors, translation, previous_outputs, combined,
                   speed_override, speed_mask, target_heading, set_values, asserted,
                   worldVars, forceVars, senseVars, pureVars>>

update_previous_steering_outputs ==
    /\ pc = "previous"
    /\ previous_outputs' = outputs
    /\ pc' = "combine"
    /\ UNCHANGED <<tick, pending, behaviors, translation, outputs, combined,
                   speed_override, speed_mask, target_heading, set_values, asserted,
                   worldVars, forceVars, senseVars, pureVars>>

CombinedFor(steering_outputs) ==
    IF has_some(steering_outputs) THEN CombinedNew(only_some(steering_outputs))
    ELSE CombinedZERO

combine_steering_targets ==
    /\ pc = "combine"
    /\ combined' = [a \in Agents |-> Some(CombinedFor(outputs[a]))]
    /\ pc' = "move"
    /\ UNCHANGED <<tick, pending, behaviors, translation, outputs, previous_outputs,
                   speed_override, speed_mask, target_heading, set_values, asserted,
                   worldVars, forceVars, senseVars, pureVars>>

\* The target heading move_agent resolves from the combined target
move_agent ==
    /\ pc = "move"
    /\ target_heading' =
          [a \in Agents |-> into_heading(Unwrap(combined[a]), DANGER_SENSITIVITY)]
    /\ forces' =
          [a \in Agents |->
              MoveAgentFor(steering_agent[a], Unwrap(combined[a]), speed_mask[a], body[a])]
    /\ pc' = "physics"
    /\ UNCHANGED <<tick, pending, behaviors, translation, outputs, previous_outputs,
                   combined, speed_override, speed_mask, set_values, asserted,
                   worldVars, body, senseVars, pureVars>>

\* The physics step integrates the applied forces and moves the bodies
PhysicsStep ==
    /\ pc = "physics"
    /\ translation' \in [Agents -> Positions]
    /\ body' \in [Agents -> Bodies]
    /\ tracking' = [a \in Agents |-> DetectorsCast(tracking[a])]
    /\ world' \in {w \in Worlds : \A a \in Agents : CanHit(tracking'[a]) \/ w.hits[a] = <<>>}
    /\ pc' = "idle"
    /\ UNCHANGED <<tick, pending, behaviors, outputs, previous_outputs, combined,
                   speed_override, speed_mask, target_heading, set_values, asserted,
                   worldVars, forces, neighborhood, pureVars>>

\* ------------------------------------------------------------------------
\* The schedule
\* ------------------------------------------------------------------------
SpeedMaskDefault == [i \in Slots |-> 0]

\* Forces before move_agent has run
NoForces == [heading |-> Vec3ZERO, linear_impulse |-> None, torque |-> None, force |-> Vec3ZERO]

NoCall == [fn |-> "none"]

InitAgents ==
    /\ pc = "idle"
    /\ tick = 0
    /\ pending = {}
    /\ behaviors = [a \in Agents |-> [b \in Behaviors |-> None]]
    /\ translation \in [Agents -> Positions]
    /\ outputs = [a \in Agents |-> SteeringOutputsDefault]
    /\ previous_outputs = [a \in Agents |-> SteeringOutputsDefault]
    /\ combined = [a \in Agents |-> None]
    /\ speed_override = [a \in Agents |-> ONE]
    /\ speed_mask = [a \in Agents |-> SpeedMaskDefault]
    /\ speed_controller = [a \in Agents |-> SpeedControllerDefault]
    /\ target_heading = [a \in Agents |-> Vec3ZERO]
    /\ set_values = [a \in Agents |-> {}]
    /\ asserted = [a \in Agents |-> FALSE]
    /\ steering_agent \in [Agents -> AgentModes]
    /\ body \in [Agents -> Bodies]
    /\ forces = [a \in Agents |-> NoForces]
    /\ world = Scene
    /\ neighborhood = [a \in Agents |-> EmptyMap]

\* No TemporalSmoothing resource, no obstacle tracking
Init ==
    /\ InitAgents
    /\ smoothing = None
    /\ nearby_obstacles = [a \in Agents |-> None]
    /\ tracking = [a \in Agents |-> None]
    /\ call = NoCall
    /\ ret = None

\* Every agent was spawned with TrackNearbyObstacles::default()
InitTracking ==
    /\ InitAgents
    /\ smoothing = None
    /\ nearby_obstacles = [a \in Agents |-> Some(EmptyMap)]
    /\ tracking = [a \in Agents |-> Some(TrackingDefault)]
    /\ call = NoCall
    /\ ret = None

\* The host inserted a TemporalSmoothing resource at startup
InitSmoothing ==
    /\ InitAgents
    /\ smoothing \in {Some(blend) : blend \in BlendValues}
    /\ nearby_obstacles = [a \in Agents |-> None]
    /\ tracking = [a \in Agents |-> None]
    /\ call = NoCall
    /\ ret = None

Next ==
    \/ \E a \in Agents, b \in Behaviors : Attach(a, b)
    \/ \E a \in Agents, b \in Behaviors : Detach(a, b)
    \/ reset_speed_override
    \/ setup_obstacle_tracking
    \/ update_nearby_obstacles
    \/ update_neighborhoods
    \/ seek_run
    \/ flee_run
    \/ approach_run
    \/ \E a \in Agents : HostSetSpeedOverride(a)
    \/ speed_control
    \/ temporal_smoothing
    \/ update_previous_steering_outputs
    \/ combine_steering_targets
    \/ move_agent
    \/ PhysicsStep

Spec == Init /\ [][Next]_vars

SpecSmoothing == InitSmoothing /\ [][Next]_vars

SpecTracking == InitTracking /\ [][Next]_vars

\* ------------------------------------------------------------------------
\* Calls of the pure functions on bounded inputs
\* ------------------------------------------------------------------------
MapOf(seq) == [i \in Slots |-> seq[i + 1]]

\* The maps of test_into_heading_surrounded_agent
SurroundedTarget ==
    [interest_map |-> MapOf(<<900, 700, 400, 200, 100, 200, 500, 800,
                              300, 200, 100, 100, 200, 100, 200, 300>>),
     danger_map |-> MapOf(<<800, 600, 300, 400, 500, 400, 300, 700,
                            900, 800, 600, 700, 800, 700, 600, 900>>),
     speed |-> ONE, urgency |-> 0]

\* The target of test_into_heading_with_urgency
UrgentTarget ==
    [SteeringTargetDefault EXCEPT
        !.interest_map = [i \in Slots |-> IF i = 0 THEN ONE ELSE 0],
        !.speed = 200, !.urgency = 800]

TargetPalette ==
    <<set_interest(SteeringTargetDefault, <<ONE, 0, 0>>),
      set_interest(SteeringTargetDefault, <<600, 0, 800>>),
      add_danger(SteeringTargetDefault, <<ONE, 0, 0>>, ONE),
      SurroundedTarget,
      UrgentTarget,
      set_urgency(add_danger(set_interest(SteeringTargetDefault, <<-ONE, 0, 0>>),
                             <<ONE, 0, 0>>, 700), 300),
      set_speed(set_interest(SteeringTargetDefault, <<0, 0, ONE>>), 500),
      set_speed(set_interest(SteeringTargetDefault, <<ONE, 0, 0>>), 0)>>

TargetSeqs ==
    UNION {[1..n -> {TargetPalette[k] : k \in 1..Len(TargetPalette)}] : n \in 0..MaxTargets}

SensValues == {-100, 0, DANGER_SENSITIVITY, 500}

\* A SteeringOutputs whose first Len(targets) behaviours hold the targets
OutputsOf(targets) ==
    [b \in Behaviors |->
        LET k == CHOOSE j \in 1..Len(BehaviorType) : BehaviorType[j] = b
        IN  IF k <= Len(targets) THEN Some(targets[k]) ELSE None]

Normal(slot) == VNeg(slot_to_dir(slot))

ObstaclePalette ==
    {[distance |-> 0, impact_normals |-> Some(<<Normal(0), Normal(0)>>)],
     [distance |-> 10 * ONE, impact_normals |-> Some(<<Normal(0), Normal(0)>>)],
     [distance |-> 5 * ONE, impact_normals |-> Some(<<Normal(4), Normal(4)>>)],
     [distance |-> 0, impact_normals |-> None],
     [distance |-> 0, impact_normals |-> Some(<<Normal(0), Normal(2)>>)],
     [distance |-> 0, impact_normals |-> Some(<<Normal(0), Normal(8)>>)]}

ObstacleSeqs == UNION {[1..n -> ObstaclePalette] : n \in 0..MaxObstacles}

OverrideValues == {0, 300, 707, ONE}

Controllers ==
    {SpeedControllerDefault,
     [obstacle_weight |-> 500, stopping_distance |-> 5 * ONE],
     [obstacle_weight |-> 2500, stopping_distance |-> 10 * ONE],
     [obstacle_weight |-> 0, stopping_distance |-> 10 * ONE]}

HeadingCalls ==
    {[fn |-> "into_heading", targets |-> ts, danger_sensitivity |-> ds] :
        ts \in TargetSeqs, ds \in SensValues}

SpeedCalls ==
    {[fn |-> "speed_control", speed_override |-> so, obstacles |-> obs, controller |-> c] :
        so \in OverrideValues,
        obs \in {None} \cup {Some(os) : os \in ObstacleSeqs},
        c \in Controllers}

\* combine_steering_targets on the given outputs
CallCombine ==
    /\ pc = "pure"
    /\ call.fn = "into_heading"
    /\ ret = None
    /\ ret' = Some([combined |-> CombinedFor(OutputsOf(call.targets)), heading |-> None])
    /\ UNCHANGED <<pc, tick, pending, behaviors, translation, outputs, previous_outputs,
                   combined, speed_override, speed_mask, target_heading, set_values,
                   asserted, worldVars, forceVars, senseVars, call>>

\* into_heading on the combined target
CallIntoHeading ==
    /\ pc = "pure"
    /\ call.fn = "into_heading"
    /\ ret # None
    /\ Unwrap(ret).heading = None
    /\ ret' = Some([Unwrap(ret) EXCEPT
                      !.heading = Some(into_heading(Unwrap(ret).combined,
                                                    call.danger_sensitivity))])
    /\ UNCHANGED <<pc, tick, pending, behaviors, translation, outputs, previous_outputs,
                   combined, speed_override, speed_mask, target_heading, set_values,
                   asserted, worldVars, forceVars, senseVars, call>>

\* speed_control for one agent
CallSpeedControl ==
    /\ pc = "pure"
    /\ call.fn = "speed_control"
    /\ ret = None
    /\ ret' = Some(SpeedMaskFor(call.speed_override, call.obstacles, call.controller))
    /\ UNCHANGED <<pc, tick, pending, behaviors, translation, outputs, previous_outputs,
                   combined, speed_override, speed_mask, target_heading, set_values,
                   asserted, worldVars, forceVars, senseVars, call>>

\* SteeringAgent configurations, in both locomotion modes
AgentPalette ==
    {[SteeringAgentDefault EXCEPT !.locomotion_mode = mode, !.max_force = mf,
                                  !.max_torque = mt, !.turn_priority = tp] :
        mode \in {"OmniDirectional", "Directional"},
        mf \in {<<100 * ONE, 100 * ONE, 100 * ONE>>, <<100 * ONE, 0, 0>>, Vec3ZERO},
        mt \in {<<100 * ONE, 100 * ONE, 100 * ONE>>, <<0, ONE, 0>>, Vec3ZERO},
        tp \in {0, ONE}}

BodyPalette ==
    {[RestingBody EXCEPT !.forward = axes[1], !.right = axes[2],
                         !.linear_velocity = lv, !.angular_velocity = av] :
        axes \in {<<<<0, 0, -ONE>>, <<ONE, 0, 0>>>>, <<<<ONE, 0, 0>>, <<0, 0, ONE>>>>,
                   <<<<600, 0, 800>>, <<-800, 0, 600>>>>},
        lv \in {Vec3ZERO, <<2 * ONE, 0, 3 * ONE>>, <<-3 * ONE, ONE, 0>>},
        av \in {Vec3ZERO, <<0, 20 * ONE, -ONE>>}}

MaskPalette == {[i \in Slots |-> ONE], [i \in Slots |-> IF i < 3 THEN 300 ELSE ONE]}

MoveTargets ==
    {CombinedZERO, TargetPalette[1], TargetPalette[2], TargetPalette[5], TargetPalette[6]}

MoveCalls ==
    {[fn |-> "move_agent", agent |-> ag, target |-> t, speed_mask |-> m, body |-> b] :
        ag \in AgentPalette, t \in MoveTargets, m \in MaskPalette, b \in BodyPalette}

\* move_agent for one agent
CallMoveAgent ==
    /\ pc = "pure"
    /\ call.fn = "move_agent"
    /\ ret = None
    /\ ret' = Some(MoveAgentFor(call.agent, call.target, call.speed_mask, call.body))
    /\ UNCHANGED <<pc, tick, pending, behaviors, translation, outputs, previous_outputs,
                   combined, speed_override, speed_mask, target_heading, set_values,
                   asserted, worldVars, forceVars, senseVars, call>>

\* Direction vectors a caller can pass: unit, shorter, longer, vertical, zero, NaN
DirectionPalette ==
    {<<ONE, 0, 0>>, <<-600, 0, 800>>, <<0, 0, -300>>, <<3 * ONE, 0, 4 * ONE>>,
     <<0, ONE, 0>>, Vec3ZERO, NaNVec}

\* Intensities at most 1
IntensityPalette == {ONE, 500, 0}

TargetCalls == {[fn |-> "target", n |-> 0, op |-> "new"]}

\* SteeringTarget::set_interest on the target built so far
CallSetInterest ==
    /\ pc = "pure"
    /\ call.fn = "target"
    /\ call.n < MaxCalls
    /\ \E direction \in DirectionPalette :
          /\ ret' = Some(set_interest(Unwrap(ret), direction))
          /\ call' = [fn |-> "target", n |-> call.n + 1, op |-> "set_interest",
                      direction |-> direction, before |-> Unwrap(ret)]
    /\ UNCHANGED <<pc, tick, pending, behaviors, translation, outputs, previous_outputs,
                   combined, speed_override, speed_mask, target_heading, set_values,
                   asserted, worldVars, forceVars, senseVars>>

\* SteeringTarget::add_danger on the target built so far
CallAddDanger ==
    /\ pc = "pure"
    /\ call.fn = "target"
    /\ call.n < MaxCalls
    /\ \E direction \in DirectionPalette, intensity \in IntensityPalette :
          /\ ret' = Some(add_danger(Unwrap(ret), direction, intensity))
          /\ call' = [fn |-> "target", n |-> call.n + 1, op |-> "add_danger",
                      direction |-> direction, intensity |-> intensity,
                      before |-> Unwrap(ret)]
    /\ UNCHANGED <<pc, tick, pending, behaviors, translation, outputs, previous_outputs,
                   combined, speed_override, speed_mask, target_heading, set_values,
                   asserted, worldVars, forceVars, senseVars>>

\* The scene of the sensing calls: the agent has two colliders, entity 4 is
\* a second Neighbor
SenseScene ==
    [Scene EXCEPT !.colliders = @ \cup {<<1, 2>>}, !.neighbor_bodies = @ \cup {4}]

\* Pairs of colliders whose distance query returns Err
UnsupportedPalette ==
    {{},
     {<<<<1, 1>>, <<2, 1>>>>},
     {<<<<1, 1>>, <<2, 1>>>>, <<<<1, 2>>, <<2, 1>>>>},
     {<<ac, c>> : ac \in {<<1, 1>>, <<1, 2>>}, c \in {<<2, 1>>, <<2, 2>>}}}

SenseWorlds == {[SenseScene EXCEPT !.unsupported = u] : u \in UnsupportedPalette}

\* RigidBodyColliders of the agent: none, one collider, two colliders
AgentColliderPalette == {<<>>, <<<<1, 1>>>>, <<<<1, 1>>, <<1, 2>>>>}

\* What the spatial query can return: the agent's own collider, two colliders
\* of neighbor 2, a rigid body without the Neighbor marker, neighbor 4, and an
\* entity that is not a collider
CandidatePalette == {<<1, 1>>, <<2, 1>>, <<2, 2>>, <<3, 1>>, <<4, 1>>, <<0, 1>>}

\* Shape hits of the detectors: two colliders of entity 2, entity 3, and a
\* collider without a rigid body
HitPalette ==
    {ShapeHit(<<2, 1>>, 3 * ONE, 0), ShapeHit(<<2, 2>>, ONE, 1),
     ShapeHit(<<3, 1>>, 2 * ONE, 2), ShapeHit(<<9, 1>>, 500, 3)}

\* Six hits on six rigid bodies
ManyHits == [i \in 1..6 |-> ShapeHit(<<i + 2, 1>>, i * ONE, 0)]

\* The sequences of at most n distinct elements of S, in every order
SeqsOf(S, n) ==
    UNION {{s \in [1..k -> S] : \A i, j \in 1..k : s[i] = s[j] => i = j} : k \in 0..n}

\* Maps left by the previous tick
PreviousNeighborhoods ==
    {EmptyMap,
     MapInsert(EmptyMap, 2, [entity |-> 2, distance |-> 50,
                             closest_points |-> Some(<<<<1, 1>>, <<2, 1>>>>)]),
     MapInsert(EmptyMap, 4, [entity |-> 4, distance |-> 500,
                             closest_points |-> Some(<<<<1, 1>>, <<4, 1>>>>)])}

PreviousObstacles ==
    {EmptyMap,
     MapInsert(EmptyMap, 5, [entity |-> 5, distance |-> ONE,
                             impact_normals |-> Some(<<Vec3ZERO, Vec3ZERO>>)])}

SenseCalls ==
    {[fn |-> "update_neighborhoods", agent |-> 1, previous |-> prev,
      agent_colliders |-> ac, candidates |-> cs, world |-> w] :
        prev \in PreviousNeighborhoods, ac \in AgentColliderPalette,
        cs \in SeqsOf(CandidatePalette, MaxSeen), w \in SenseWorlds}
    \cup
    {[fn |-> "update_nearby_obstacles", agent |-> 1, previous |-> prev,
      hits |-> hs, world |-> SenseScene] :
        prev \in PreviousObstacles, hs \in SeqsOf(HitPalette, MaxSeen) \cup {ManyHits}}

\* update_neighborhoods for one agent
CallUpdateNeighborhoods ==
    /\ pc = "pure"
    /\ call.fn = "update_neighborhoods"
    /\ ret = None
    /\ ret' = Some(NeighborhoodFor(call.previous, call.agent, call.agent_colliders,
                                   call.candidates, call.world))
    /\ UNCHANGED <<pc, tick, pending, behaviors, translation, outputs, previous_outputs,
                   combined, speed_override, speed_mask, target_heading, set_values,
                   asserted, worldVars, forceVars, senseVars, call>>

\* update_nearby_obstacles for one agent with detectors
CallUpdateNearbyObstacles ==
    /\ pc = "pure"
    /\ call.fn = "update_nearby_obstacles"
    /\ ret = None
    /\ ret' = Some(NearbyObstaclesFor(call.previous, call.hits, call.world))
    /\ UNCHANGED <<pc, tick, pending, behaviors, translation, outputs, previous_outputs,
                   combined, speed_override, speed_mask, target_heading, set_values,
                   asserted, worldVars, forceVars, senseVars, call>>

\* Entities a Pursuit or Evasion can name: 5 moves, 7 has no LinearVelocity,
\* 8 has no GlobalTransform, 6 has been despawned
ChaseEntities ==
    (5 :> [transform |-> Some(Point(3, 4)), velocity |-> Some(<<ONE, 0, 0>>)]) @@
    (7 :> [transform |-> Some(Point(3, 4)), velocity |-> None]) @@
    (8 :> [transform |-> None, velocity |-> Some(<<ONE, 0, 0>>)])

ChaseTargets == {None, Some(5), Some(6), Some(7), Some(8)}

\* SteeringOutputs before the pass: nothing set, or entries of an earlier tick
ChaseOutputs ==
    {SteeringOutputsDefault,
     [SteeringOutputsDefault EXCEPT
        !["Pursuit"] = Some(set_interest(SteeringTargetDefault, <<0, 0, ONE>>)),
        !["Evasion"] = Some(set_interest(SteeringTargetDefault, <<0, 0, -ONE>>)),
        !["Seek"] = Some(set_interest(SteeringTargetDefault, <<ONE, 0, 0>>))]}

\* The collected tuple of one pursuer or evader
Chasers(e) ==
    {[entity |-> e, target |-> t, pos |-> Point(0, 0), max_speed |-> 10 * ONE,
      max_prediction_time |-> ONE, radius |-> r, offset |-> o] :
        t \in ChaseTargets, r \in {ONE, 10 * ONE}, o \in {0, 2 * ONE}}

ChaseCalls ==
    {[fn |-> f, agents |-> ags, before |-> bef, entities |-> ChaseEntities] :
        f \in {"pursuit_run", "evasion_run"},
        ags \in {<<p, q>> : p \in Chasers(1), q \in Chasers(2)}
                \cup {<<q, p>> : p \in Chasers(1), q \in Chasers(2)},
        bef \in [{1, 2} -> ChaseOutputs]}

\* pursuit::run over the pursuers of the world
CallPursuitRun ==
    /\ pc = "pure"
    /\ call.fn = "pursuit_run"
    /\ ret = None
    /\ ret' = Some(PursuitLoop(call.before, call.agents, call.entities))
    /\ UNCHANGED <<pc, tick, pending, behaviors, translation, outputs, previous_outputs,
                   combined, speed_override, speed_mask, target_heading, set_values,
                   asserted, worldVars, forceVars, senseVars, call>>

\* evasion::run over the evaders of the world
CallEvasionRun ==
    /\ pc = "pure"
    /\ call.fn = "evasion_run"
    /\ ret = None
    /\ ret' = Some(EvasionLoop(call.before, call.agents, call.entities))
    /\ UNCHANGED <<pc, tick, pending, behaviors, translation, outputs, previous_outputs,
                   combined, speed_override, speed_mask, target_heading, set_values,
                   asserted, worldVars, forceVars, senseVars, call>>

\* ComputedNeighbor values of the flocking calls: the entity, its velocity
\* and the closest point on it (None when the backend gave no points)
FlockNeighbor(e, point, velocity) ==
    [entity |-> e, distance |-> IF point = None THEN INFINITY ELSE VLength(Unwrap(point)),
     velocity |-> velocity,
     closest_points |-> IF point = None THEN None ELSE Some(<<Vec3ZERO, Unwrap(point)>>)]

\* Where the closest point of a neighbour can lie, the agent being at the
\* origin: at 2 on either side, at 0.5, on the agent, outside the radius,
\* or unknown
FlockPoints ==
    {Some(<<2 * ONE, 0, 0>>), Some(<<-2 * ONE, 0, 0>>), Some(<<0, 0, 500>>),
     Some(Vec3ZERO), Some(<<12 * ONE, 0, 0>>), None}

FlockVelocities ==
    {Vec3ZERO, <<ONE, 0, 0>>, <<-ONE, 0, 0>>, <<0, 0, 2 * ONE>>, <<0, ONE, 0>>}

\* Neighborhoods of at most MaxNeighbors of the entities 2, 3, 4
FlockNeighborhoods(points, velocities) ==
    {ns \in UNION {[es -> UNION {{FlockNeighbor(e, pt, v) : pt \in points, v \in velocities}
                                     : e \in es}]
                      : es \in {x \in SUBSET {2, 3, 4} : Cardinality(x) <= MaxNeighbors}}
        : \A e \in DOMAIN ns : ns[e].entity = e}

\* SteeringOutputs before the pass: nothing set, or entries of an earlier tick
FlockOutputs ==
    {SteeringOutputsDefault,
     [SteeringOutputsDefault EXCEPT
        !["Separation"] = Some(set_interest(SteeringTargetDefault, <<0, 0, -ONE>>)),
        !["Alignment"] = Some(set_interest(SteeringTargetDefault, <<0, 0, -ONE>>)),
        !["Seek"] = Some(set_interest(SteeringTargetDefault, <<ONE, 0, 0>>))]}

SeparateConfigs ==
    {[desired_radius |-> 10 * ONE, panic_radius |-> ONE],
     [desired_radius |-> 2 * ONE, panic_radius |-> 4 * ONE]}

SeparationCalls ==
    {[fn |-> "separation_run", agent_pos |-> Vec3ZERO, separate |-> cfg,
      neighbors |-> ns, before |-> bef] :
        cfg \in SeparateConfigs, ns \in FlockNeighborhoods(FlockPoints, {Vec3ZERO}),
        bef \in FlockOutputs}

\* separation::run for one agent
CallSeparationRun ==
    /\ pc = "pure"
    /\ call.fn = "separation_run"
    /\ ret = None
    /\ ret' = Some(SeparationFor(call.before, call.agent_pos, call.separate, call.neighbors))
    /\ UNCHANGED <<pc, tick, pending, behaviors, translation, outputs, previous_outputs,
                   combined, speed_override, speed_mask, target_heading, set_values,
                   asserted, worldVars, forceVars, senseVars, call>>

AlignmentCalls ==
    {[fn |-> "alignment_run", velocity |-> v, neighbors |-> ns, before |-> bef] :
        v \in {Vec3ZERO, <<0, 0, -3 * ONE>>},
        ns \in FlockNeighborhoods({None}, FlockVelocities), bef \in FlockOutputs}

\* alignment::run for one agent
CallAlignmentRun ==
    /\ pc = "pure"
    /\ call.fn = "alignment_run"
    /\ ret = None
    /\ ret' = Some(AlignmentFor(call.before, call.neighbors, call.velocity))
    /\ UNCHANGED <<pc, tick, pending, behaviors, translation, outputs, previous_outputs,
                   combined, speed_override, speed_mask, target_heading, set_values,
                   asserted, worldVars, forceVars, senseVars, call>>

\* Polylines handed over by the path planner: none, one waypoint, a corner,
\* a corner with a repeated waypoint, a repeated waypoint alone, and a
\* slanted zigzag
PathPalette ==
    {<<>>, <<Point(2, 0)>>, <<Point(0, 0), Point(4, 0), Point(4, 3)>>,
     <<Point(0, 0), Point(4, 0), Point(4, 0), Point(4, 3)>>,
     <<Point(0, 0), Point(0, 0)>>, <<Point(0, 0), Point(3, 4), Point(0, 8)>>}

PathFollowingConfigs ==
    {[path |-> path, path_radius |-> r, prediction_time |-> ONE, target_distance |-> td] :
        path \in PathPalette, r \in {ONE, 3 * ONE}, td \in {ONE, 3 * ONE, 10 * ONE}}

PathOutputs ==
    {SteeringOutputsDefault,
     [SteeringOutputsDefault EXCEPT
        !["PathFollowing"] = Some(set_interest(SteeringTargetDefault, <<0, 0, -ONE>>))]}

PathCalls ==
    {[fn |-> "path_following_run", agent_pos |-> pos, velocity |-> v, path_following |-> pf,
      before |-> bef] :
        pos \in {Point(0, 0), Point(1, 0), Point(1, 2), Point(4, 1), Point(4, 3)},
        v \in {Vec3ZERO, <<ONE, 0, 0>>, <<0, 0, 3 * ONE>>},
        pf \in PathFollowingConfigs, bef \in PathOutputs}

\* path_following::run for one agent
CallPathFollowingRun ==
    /\ pc = "pure"
    /\ call.fn = "path_following_run"
    /\ ret = None
    /\ ret' = Some(PathFollowingFor(call.before, call.agent_pos, call.velocity,
                                    call.path_following))
    /\ UNCHANGED <<pc, tick, pending, behaviors, translation, outputs, previous_outputs,
                   combined, speed_override, speed_mask, target_heading, set_values,
                   asserted, worldVars, forceVars, senseVars, call>>

\* Two agents that carry the same behaviour in one pass
Crowd == {1, 2}

\* Where the agents of the crowd stand
CrowdPositions == {Point(0, 0), Point(3, 0), Point(0, 9)}

\* SteeringOutputs before the pass: nothing set, or entries of an earlier tick
CrowdOutputs ==
    {SteeringOutputsDefault,
     [SteeringOutputsDefault EXCEPT
        !["Seek"] = Some(set_interest(SteeringTargetDefault, <<0, 0, -ONE>>)),
        !["Flee"] = Some(set_interest(SteeringTargetDefault, <<0, 0, -ONE>>))]}

CrowdCalls ==
    {[fn |-> f, order |-> o, components |-> [a \in Crowd |-> Some(cfg)],
      positions |-> pos, before |-> bef] :
        f \in {"seek_run", "flee_run"},
        o \in {<<1, 2>>, <<2, 1>>},
        cfg \in {[target |-> TargetPoint, target_radius |-> 5 * ONE, radius |-> 5 * ONE]},
        pos \in [Crowd -> CrowdPositions],
        bef \in [Crowd -> CrowdOutputs]}

\* seek::run over the agents of the crowd
CallSeekRun ==
    /\ pc = "pure"
    /\ call.fn = "seek_run"
    /\ ret = None
    /\ ret' = Some(SeekRun(call.before, call.order, call.components, call.positions))
    /\ UNCHANGED <<pc, tick, pending, behaviors, translation, outputs, previous_outputs,
                   combined, speed_override, speed_mask, target_heading, set_values,
                   asserted, worldVars, forceVars, senseVars, call>>

\* flee::run over the agents of the crowd
CallFleeRun ==
    /\ pc = "pure"
    /\ call.fn = "flee_run"
    /\ ret = None
    /\ ret' = Some(FleeRun(call.before, call.order, call.components, call.positions))
    /\ UNCHANGED <<pc, tick, pending, behaviors, translation, outputs, previous_outputs,
                   combined, speed_override, speed_mask, target_heading, set_values,
                   asserted, worldVars, forceVars, senseVars, call>>

\* Seek, Approach and Flee components whose target can coincide with the
\* agent's position, with a zero target_radius for Seek and Approach
ArriveConfigs(b) ==
    CASE b = "Seek" ->
           {[target |-> Point(0, 0), target_radius |-> 0],
            [target |-> Point(3, 0), target_radius |-> 0]} \cup SeekConfigs
      [] b = "Approach" ->
           {[target |-> Point(0, 0), target_radius |-> 0, slowdown_distance |-> 10 * ONE],
            [target |-> Point(0, 4), target_radius |-> ONE, slowdown_distance |-> 2 * ONE]}
           \cup ApproachConfigs
      [] b = "Flee" ->
           {[target |-> Point(0, 0), radius |-> 5 * ONE],
            [target |-> Point(3, 0), radius |-> 0]} \cup FleeConfigs
      [] OTHER -> {}

\* SteeringOutputs before the pass: nothing set, or entries of an earlier tick
ArriveOutputs ==
    {SteeringOutputsDefault,
     [SteeringOutputsDefault EXCEPT
        !["Seek"] = Some(add_danger(set_interest(SteeringTargetDefault, <<ONE, 0, 0>>),
                                    <<0, 0, ONE>>, 500)),
        !["Approach"] = Some(set_interest(SteeringTargetDefault, <<0, 0, ONE>>)),
        !["Flee"] = Some(set_interest(SteeringTargetDefault, <<0, 0, -ONE>>))]}

\* A tick about to run the behaviour systems, with Seek, Approach and Flee
\* attached or not
InitArrive ==
    /\ pc = "behaviors"
    /\ tick = 1
    /\ pending = {"Seek", "Approach", "Flee"}
    /\ behaviors \in
          [Agents ->
             {[b \in Behaviors |->
                 CASE b = "Seek" -> s
                   [] b = "Approach" -> ap
                   [] b = "Flee" -> f
                   [] OTHER -> None] :
                s \in {None} \cup {Some(c) : c \in ArriveConfigs("Seek")},
                ap \in {None} \cup {Some(c) : c \in ArriveConfigs("Approach")},
                f \in {None} \cup {Some(c) : c \in ArriveConfigs("Flee")}}]
    /\ translation \in [Agents -> Positions]
    /\ outputs \in [Agents -> ArriveOutputs]
    /\ previous_outputs = [a \in Agents |-> SteeringOutputsDefault]
    /\ combined = [a \in Agents |-> None]
    /\ speed_override \in [Agents -> {ONE, 300}]
    /\ speed_mask = [a \in Agents |-> SpeedMaskDefault]
    /\ speed_controller = [a \in Agents |-> SpeedControllerDefault]
    /\ target_heading = [a \in Agents |-> Vec3ZERO]
    /\ set_values = [a \in Agents |-> {speed_override[a]} \ {ONE}]
    /\ asserted = [a \in Agents |-> has_some(outputs[a])]
    /\ steering_agent = [a \in Agents |-> SteeringAgentDefault]
    /\ body = [a \in Agents |-> RestingBody]
    /\ forces = [a \in Agents |-> NoForces]
    /\ world = Scene
    /\ neighborhood = [a \in Agents |-> EmptyMap]
    /\ tracking = [a \in Agents |-> None]
    /\ smoothing = None
    /\ nearby_obstacles = [a \in Agents |-> None]
    /\ call = NoCall
    /\ ret = None

NextArrive == seek_run \/ approach_run \/ flee_run

SpecArrive == InitArrive /\ [][NextArrive]_vars

\* The world untouched while a single function is called
InitWorldAtRest ==
    /\ tick = 0
    /\ pending = {}
    /\ behaviors = [a \in Agents |-> [b \in Behaviors |-> None]]
    /\ translation = [a \in Agents |-> Point(0, 0)]
    /\ outputs = [a \in Agents |-> SteeringOutputsDefault]
    /\ previous_outputs = [a \in Agents |-> SteeringOutputsDefault]
    /\ combined = [a \in Agents |-> None]
    /\ speed_override = [a \in Agents |-> ONE]
    /\ speed_mask = [a \in Agents |-> SpeedMaskDefault]
    /\ speed_controller = [a \in Agents |-> SpeedControllerDefault]
    /\ target_heading = [a \in Agents |-> Vec3ZERO]
    /\ set_values = [a \in Agents |-> {}]
    /\ asserted = [a \in Agents |-> FALSE]
    /\ steering_agent = [a \in Agents |-> SteeringAgentDefault]
    /\ body = [a \in Agents |-> RestingBody]
    /\ forces = [a \in Agents |-> NoForces]
    /\ world = Scene
    /\ neighborhood = [a \in Agents |-> EmptyMap]
    /\ tracking = [a \in Agents |-> None]
    /\ smoothing = None
    /\ nearby_obstacles = [a \in Agents |-> None]

InitPure ==
    /\ pc = "pure"
    /\ ret = None
    /\ InitWorldAtRest

InitHeading == InitPure /\ call \in HeadingCalls

InitSpeed == InitPure /\ call \in SpeedCalls

InitTarget ==
    /\ pc = "pure"
    /\ call \in TargetCalls
    /\ ret = Some(SteeringTargetDefault)
    /\ InitWorldAtRest

NextTarget == CallSetInterest \/ CallAddDanger

SpecTarget == InitTarget /\ [][NextTarget]_vars

InitMove == InitPure /\ call \in MoveCalls

NextMove == CallMoveAgent

SpecMove == InitMove /\ [][NextMove]_vars

NextHeading == CallCombine \/ CallIntoHeading

NextSpeed == CallSpeedControl

SpecHeading == InitHeading /\ [][NextHeading]_vars

SpecSpeed == InitSpeed /\ [][NextSpeed]_vars

InitSense == InitPure /\ call \in SenseCalls

NextSense == CallUpdateNeighborhoods \/ CallUpdateNearbyObstacles

SpecSense == InitSense /\ [][NextSense]_vars

InitChase == InitPure /\ call \in ChaseCalls

NextChase == CallPursuitRun \/ CallEvasionRun

SpecChase == InitChase /\ [][NextChase]_vars

InitFlock == InitPure /\ call \in SeparationCalls \cup AlignmentCalls

NextFlock == CallSeparationRun \/ CallAlignmentRun

SpecFlock == InitFlock /\ [][NextFlock]_vars

InitPath == InitPure /\ call \in PathCalls

NextPath == CallPathFollowingRun

SpecPath == InitPath /\ [][NextPath]_vars

InitCrowd == InitPure /\ call \in CrowdCalls

NextCrowd == CallSeekRun \/ CallFleeRun

SpecCrowd == InitCrowd /\ [][NextCrowd]_vars

\* ------------------------------------------------------------------------
\* Properties
\* ------------------------------------------------------------------------
SetMax(S) == CHOOSE x \in S : \A y \in S : y <= x

SetMin(S) == CHOOSE x \in S : \A y \in S : x <= y

Range(seq) == {seq[k] : k \in 1..Len(seq)}

NoEntries(a) == \A b \in Behaviors : outputs[a][b] = None

IsZeroSentinel(c) ==
    /\ c # None
    /\ \A i \in Slots : Unwrap(c).interest_map[i] = 0 /\ Unwrap(c).danger_map[i] = 0
    /\ Unwrap(c).speed = 0
    /\ Unwrap(c).urgency = 0

Combined_done == pc \in {"move", "physics"}

\* C1: in every tick an agent whose SteeringOutputs has no entry for any
\* behaviour gets the all-zero, speed 0, urgency 0 CombinedSteeringTarget, and
\* into_heading of it is the zero vector for every danger sensitivity.
C1_NoEntriesGivesZero ==
    \A a \in Agents :
        (Combined_done /\ NoEntries(a)) =>
            /\ IsZeroSentinel(combined[a])
            /\ \A ds \in SensValues : into_heading(Unwrap(combined[a]), ds) = Vec3ZERO
            /\ (pc = "physics" => target_heading[a] = Vec3ZERO)

C1_Witness ==
    \E a \in Agents :
        /\ pc = "physics"
        /\ NoEntries(a)
        /\ behaviors[a]["Flee"] # None
        /\ tick = 2

\* C2: once a behaviour component is detached, its entry is absent in every
\* later tick until it is attached again, and an agent left without any
\* behaviour component resolves to the ZERO stop state.
C2_DetachedEntryAbsent ==
    \A a \in Agents :
        Combined_done =>
            /\ \A b \in Behaviors : behaviors[a][b] = None => outputs[a][b] = None
            /\ (\A b \in Behaviors : behaviors[a][b] = None) => IsZeroSentinel(combined[a])

InUnit(t) ==
    /\ \A i \in Slots : t.interest_map[i] \in 0..ONE /\ t.danger_map[i] \in 0..ONE
    /\ t.speed \in 0..ONE
    /\ t.urgency \in 0..ONE

\* C3: CombinedSteeringTarget::new over a non-empty collection of targets with
\* fields in [0,1] gives per slot the maximum interest and the maximum danger,
\* the minimum speed and the maximum urgency of the inputs.
C3_NewIsMaxMinMax ==
    (pc = "pure" /\ call.fn = "into_heading" /\ ret # None
     /\ call.targets # <<>> /\ \A t \in Range(call.targets) : InUnit(t)) =>
        LET c == Unwrap(ret).combined
            ts == Range(call.targets)
        IN  /\ \A i \in Slots :
                /\ c.interest_map[i] = SetMax({t.interest_map[i] : t \in ts})
                /\ c.danger_map[i] = SetMax({t.danger_map[i] : t \in ts})
            /\ c.speed = SetMin({t.speed : t \in ts})
            /\ c.urgency = SetMax({t.urgency : t \in ts})

C3_Witness ==
    /\ pc = "pure"
    /\ call.fn = "into_heading"
    /\ ret # None
    /\ Len(call.targets) = 2
    /\ call.targets[1].speed < call.targets[2].speed
    /\ call.targets[1].urgency > call.targets[2].urgency
    /\ \E i \in Slots : call.targets[1].interest_map[i] < call.targets[2].interest_map[i]
    /\ \E i \in Slots : call.targets[1].danger_map[i] # call.targets[2].danger_map[i]

PermSeqs(seq) ==
    {[i \in 1..Len(seq) |-> seq[o[i]]] : o \in Orders(1..Len(seq))}

EvaluatorResults(b, outs) ==
    CASE b = "Seek" -> {SeekLoop(outs, o) : o \in Orders(QueryMatches("Seek"))}
      [] b = "Flee" -> {FleeLoop(outs, o) : o \in Orders(QueryMatches("Flee"))}
      [] b = "Approach" -> {[a \in Agents |-> ApproachOutputs(outs, a)]}
      [] OTHER -> {outs}

Fused(outs) == [a \in Agents |-> CombinedFor(outs[a])]

FusedAfter(b1, b2) ==
    {Fused(o2) : o2 \in UNION {EvaluatorResults(b2, o1) : o1 \in EvaluatorResults(b1, outputs)}}

\* C4: the fused target of an agent does not depend on the order in which the
\* behaviour evaluators run in a tick, nor on the order or grouping in which
\* the present targets are passed to CombinedSteeringTarget::new.
C4_OrderIndependent ==
    /\ pc = "behaviors" =>
          \A b1, b2 \in pending : FusedAfter(b1, b2) = FusedAfter(b2, b1)
    /\ Combined_done =>
          \A a \in Agents :
              has_some(outputs[a]) =>
                  LET present == only_some(outputs[a])
                  IN  /\ \A p \in PermSeqs(present) : CombinedNew(p) = Unwrap(combined[a])
                      /\ \A k \in 0..Len(present) :
                            CombinedNew(<<CombinedNew(SubSeq(present, 1, k)),
                                          CombinedNew(SubSeq(present, k + 1, Len(present)))>>)
                                = Unwrap(combined[a])

C4_Witness ==
    \E a \in Agents :
        /\ pc = "move"
        /\ behaviors[a]["Flee"] # None
        /\ behaviors[a]["Approach"] # None
        /\ outputs[a]["Flee"] # None
        /\ outputs[a]["Approach"] # None
        /\ outputs[a]["Flee"] # outputs[a]["Approach"]

Band(inner, danger_sensitivity) ==
    {i \in Slots :
        inner.danger_map[i]
            <= SetMin({inner.danger_map[j] : j \in Slots}) + danger_sensitivity}

HeadingResolved ==
    /\ pc = "pure"
    /\ call.fn = "into_heading"
    /\ ret # None
    /\ Unwrap(ret).heading # None

\* C5: the sector into_heading selects as its peak has danger within
\* danger_sensitivity of the minimum danger, carries the largest interest of
\* the sectors within that bound, is the lowest-index such sector, and the
\* resolved direction stays within the 5-sector window centred on it.
C5_PeakInsideDangerBand ==
    (HeadingResolved /\ call.danger_sensitivity >= 0) =>
        LET inner == Unwrap(ret).combined
            ds == call.danger_sensitivity
            band == Band(inner, ds)
            masked == MaskedInterest(inner, ds)
            peak == TargetSlot(masked)
            dir == interpolate_peak(masked, peak)
        IN  /\ peak \in band
            /\ \A i \in band : inner.interest_map[i] <= inner.interest_map[peak]
            /\ \A i \in band :
                  inner.interest_map[i] = inner.interest_map[peak] => peak <= i
            /\ Cross2(slot_to_dir((peak + NUM_SLOTS - 2) % NUM_SLOTS), dir) >= 0
            /\ Cross2(dir, slot_to_dir((peak + 2) % NUM_SLOTS)) >= 0

\* C6: with speed and urgency in [0,1] and some sector of non-zero interest
\* inside the danger band, the length of the vector into_heading returns is
\* speed + (1 - speed) * urgency when urgency > 0 and speed otherwise (up to
\* rounding), and so lies in [0,1].
C6_HeadingMagnitude ==
    HeadingResolved =>
        LET inner == Unwrap(ret).combined
            magnitude == VLength(Unwrap(Unwrap(ret).heading))
            expected == IF inner.urgency > 0
                        THEN inner.speed + FMul(ONE - inner.speed, inner.urgency)
                        ELSE inner.speed
        IN  (/\ inner.speed \in 0..ONE
             /\ inner.urgency \in 0..ONE
             /\ \E i \in Band(inner, call.danger_sensitivity) : inner.interest_map[i] > 0)
            => /\ Abs(magnitude - expected) <= Tol
               /\ magnitude >= 0
               /\ magnitude <= ONE + Tol

C6_Witness ==
    /\ HeadingResolved
    /\ Unwrap(ret).combined.urgency > 0
    /\ Unwrap(ret).combined.speed \in 1..(ONE - 1)
    /\ \E i \in Band(Unwrap(ret).combined, call.danger_sensitivity) :
          Unwrap(ret).combined.interest_map[i] > 0
    /\ VLength(Unwrap(Unwrap(ret).heading)) > Unwrap(ret).combined.speed + Tol

\* C7: with temporal smoothing configured with a blend factor below 1, an
\* agent for which no behaviour has asserted an opinion since it was spawned
\* has, once a tick has fully run and in every later tick, the ZERO sentinel
\* as its combined target and a resolved speed of 0.
C7_SmoothedIdleAgentIsZero ==
    \A a \in Agents :
        (/\ smoothing # None
         /\ pc = "physics"
         /\ Unwrap(smoothing) < ONE
         /\ tick >= 2
         /\ ~asserted[a])
        => /\ IsZeroSentinel(combined[a])
           /\ VLength(target_heading[a]) = 0

\* C8: the temporal_smoothing step with blend factor b leaves an entry for a
\* behaviour exactly when this tick's outputs or the previous tick's outputs
\* have one, and the entry is lerp(current, previous, b) with the default
\* target standing in for an absent side; without a TemporalSmoothing
\* resource the step leaves the outputs unchanged.
C8_SmoothedEntriesAreUnion ==
    [][pc = "smoothing" =>
          /\ smoothing = None => outputs' = outputs
          /\ smoothing # None =>
                \A a \in Agents, b \in Behaviors :
                    /\ (outputs'[a][b] # None)
                          <=> (outputs[a][b] # None \/ previous_outputs[a][b] # None)
                    /\ outputs'[a][b] # None =>
                          outputs'[a][b] =
                              Some(SteeringTargetLerp(
                                      unwrap_or_default(outputs[a][b]),
                                      unwrap_or_default(previous_outputs[a][b]),
                                      Unwrap(smoothing)))]_vars

\* C9: SpeedOverride is 1.0 when the behaviour evaluators start, and at any
\* moment equals the minimum of 1.0 and the values passed to set since the
\* reset of the current tick, whatever the order of the calls; values set in
\* an earlier tick do not enter.
C9_SpeedOverrideIsMinOfTick ==
    \A a \in Agents :
        /\ speed_override[a] = SetMin({ONE} \cup set_values[a])
        /\ (pc = "behaviors" /\ set_values[a] = {}) => speed_override[a] = ONE
        /\ speed_override[a] <= ONE

C9_Witness ==
    \E a \in Agents :
        /\ tick = 2
        /\ pc = "behaviors"
        /\ set_values[a] = {}
        /\ speed_override[a] = ONE
        /\ speed_mask[a][0] > 0
        /\ speed_mask[a][0] < ONE

SpeedControlled ==
    /\ pc = "pure"
    /\ call.fn = "speed_control"
    /\ ret # None
    /\ call.controller.obstacle_weight >= 0
    /\ call.controller.stopping_distance > 0

Slows(obstacle, controller) ==
    /\ obstacle.impact_normals # None
    /\ obstacle.distance < controller.stopping_distance

AlignedSlots(dir) ==
    {k \in Slots : \A j \in Slots : VDot(slot_to_dir(j), dir) <= VDot(slot_to_dir(k), dir)}

\* C10: after speed_control every SpeedMask entry lies in [0, SpeedOverride];
\* without NearbyObstacles the mask is uniformly SpeedOverride; obstacles at
\* or beyond stopping_distance or without impact normals leave the mask as it
\* would be without them; an obstacle at distance 0 lowers the sector aligned
\* with it by the full obstacle_weight.
C10_SpeedMaskBounds ==
    SpeedControlled =>
        LET mask == Unwrap(ret)
            so == call.speed_override
            ctl == call.controller
        IN  /\ \A i \in Slots : mask[i] >= 0 /\ mask[i] <= so
            /\ call.obstacles = None => \A i \in Slots : mask[i] = so
            /\ call.obstacles # None =>
                  LET obs == Unwrap(call.obstacles)
                  IN  /\ mask = SpeedMaskFor(so, Some(SelectSeq(obs, LAMBDA o : Slows(o, ctl))), ctl)
                      /\ (/\ Len(obs) = 1
                          /\ obs[1].impact_normals # None
                          /\ obs[1].distance = 0
                          /\ ToObstacleDir(Unwrap(obs[1].impact_normals)) # Vec3ZERO)
                         => \A k \in AlignedSlots(ToObstacleDir(Unwrap(obs[1].impact_normals))) :
                               Abs(mask[k] - FMax(so - ctl.obstacle_weight, 0)) <= Tol

InAxisCap(v, cap) == \A i \in 1..3 : v[i] >= -cap[i] /\ v[i] <= cap[i]

MoveApplied ==
    /\ pc = "pure"
    /\ call.fn = "move_agent"
    /\ ret # None

\* C11: in both locomotion modes every component of the force move_agent
\* applies lies within -max_force and +max_force of its axis, and for a
\* Directional agent every component of the applied torque lies within
\* -max_torque and +max_torque; an axis whose cap is 0 gets force or torque 0.
\* OmniDirectional agents get no torque.
C11_ForceAndTorqueCapped ==
    /\ MoveApplied =>
          LET out == Unwrap(ret)
          IN  /\ InAxisCap(out.force, call.agent.max_force)
              /\ \A i \in 1..3 : call.agent.max_force[i] = 0 => out.force[i] = 0
              /\ (call.agent.locomotion_mode = "Directional") = (out.torque # None)
              /\ out.torque # None =>
                    /\ InAxisCap(Unwrap(out.torque), call.agent.max_torque)
                    /\ \A i \in 1..3 :
                          call.agent.max_torque[i] = 0 => Unwrap(out.torque)[i] = 0
    /\ pc = "physics" =>
          \A a \in Agents :
              /\ InAxisCap(forces[a].force, steering_agent[a].max_force)
              /\ forces[a].torque # None =>
                    InAxisCap(Unwrap(forces[a].torque), steering_agent[a].max_torque)

C11_Witness ==
    /\ MoveApplied
    /\ call.agent.locomotion_mode = "Directional"
    /\ call.agent.max_force = <<100 * ONE, 0, 0>>
    /\ Unwrap(ret).force[1] = 100 * ONE
    /\ Unwrap(Unwrap(ret).torque)[2] \in {ONE, -ONE}
    /\ call.agent.max_torque = <<0, ONE, 0>>

PipelineOrder ==
    {<<"idle", "setup">>, <<"setup", "obstacles">>, <<"obstacles", "neighbors">>,
     <<"neighbors", "behaviors">>, <<"behaviors", "smoothing">>,
     <<"smoothing", "previous">>, <<"previous", "combine">>, <<"combine", "move">>,
     <<"move", "physics">>, <<"physics", "idle">>}

\* C12: the passes of a tick run in the order sensing, behaviour evaluators,
\* speed control, temporal smoothing, combine, move; and what move_agent
\* applies is computed from the CombinedSteeringTarget and the SpeedMask that
\* this tick's combine and speed_control produced from this tick's outputs,
\* SpeedOverride and obstacles.
C12_PipelineOrderAndFreshInputs ==
    [][/\ pc' # pc => <<pc, pc'>> \in PipelineOrder
       /\ pc' = "physics" =>
             \A a \in Agents :
                 LET fresh_mask == SpeedMaskFor(speed_override'[a],
                                                ObstacleValues(nearby_obstacles'[a]),
                                                speed_controller'[a])
                     fresh_target == CombinedFor(outputs'[a])
                 IN  /\ speed_mask'[a] = fresh_mask
                     /\ combined'[a] = Some(fresh_target)
                     /\ forces'[a] = MoveAgentFor(steering_agent'[a], fresh_target,
                                                  fresh_mask, body'[a])
                     /\ target_heading'[a] = forces'[a].heading]_vars

C12_Witness ==
    \E a \in Agents :
        /\ pc = "physics"
        /\ tick = 2
        /\ nearby_obstacles[a] # Some(EmptyMap)
        /\ speed_mask[a][0] < speed_mask[a][8]
        /\ has_some(outputs[a])
        /\ forces[a].force # Vec3ZERO

TargetBuilt == pc = "pure" /\ call.fn = "target" /\ ret # None

\* C13: after any sequence of set_interest and add_danger calls, with any
\* direction vector and any intensity at most 1, every interest_map entry
\* and every danger_map entry lies in [0,1].
C13_MapsInUnitRange ==
    TargetBuilt =>
        \A i \in Slots :
            /\ Unwrap(ret).interest_map[i] >= 0
            /\ Unwrap(ret).interest_map[i] <= ONE
            /\ Unwrap(ret).danger_map[i] >= 0
            /\ Unwrap(ret).danger_map[i] <= ONE

\* C14: add_danger never lowers a danger_map entry; each slot becomes the
\* maximum of its previous value and the new cosine-weighted danger; the
\* same call repeated changes nothing, and two calls give the same map in
\* either order.
C14_AddDangerAccumulatesByMax ==
    (TargetBuilt /\ call.op = "add_danger") =>
        LET after == Unwrap(ret)
            weighted(i) == IF call.direction = NaNVec THEN 0
                           ELSE FMax(FMul(VDot(slot_to_dir(i), call.direction),
                                          call.intensity), 0)
        IN  /\ \A i \in Slots :
                  /\ after.danger_map[i] >= call.before.danger_map[i]
                  /\ after.danger_map[i] = SetMax({call.before.danger_map[i], weighted(i)})
            /\ add_danger(after, call.direction, call.intensity) = after
            /\ \A d \in DirectionPalette, k \in IntensityPalette :
                  add_danger(add_danger(call.before, d, k), call.direction, call.intensity)
                      = add_danger(after, d, k)

C14_Witness ==
    /\ TargetBuilt
    /\ call.op = "add_danger"
    /\ call.n = 2
    /\ \E i \in Slots : Unwrap(ret).danger_map[i] > call.before.danger_map[i]
    /\ \E i \in Slots : call.before.danger_map[i] > 0
                        /\ Unwrap(ret).danger_map[i] = call.before.danger_map[i]

SeqRange(seq) == {seq[i] : i \in DOMAIN seq}

\* The entities this tick's spatial query found for an agent: bodies of the
\* candidate colliders that carry the Neighbor marker, the agent excluded
FoundNeighbors(agent, candidates, w) ==
    ({ColliderBody(c) : c \in SeqRange(candidates) \cap w.colliders}
        \cap w.neighbor_bodies) \ {agent}

\* The rigid bodies this tick's shape hits belong to
FoundObstacles(hits, w) ==
    {ColliderBody(h.entity) : h \in {x \in SeqRange(hits) : x.entity \in w.colliders}}
        \cap w.rigid_bodies

NeighborsSensed == pc = "pure" /\ call.fn = "update_neighborhoods" /\ ret # None

ObstaclesSensed == pc = "pure" /\ call.fn = "update_nearby_obstacles" /\ ret # None

AfterSensing == {"behaviors", "smoothing", "previous", "combine", "move", "physics"}

PairDistances(agent_colliders, collider, w) ==
    {Unwrap(QueryDistance(w, ac, collider)) :
        ac \in {x \in SeqRange(agent_colliders) \cap w.colliders :
                    QueryDistance(w, x, collider) # None}}

\* The candidate colliders of this tick that belong to an entity
CollidersOf(entity, candidates, w) ==
    {c \in SeqRange(candidates) \cap w.colliders : ColliderBody(c) = entity}

\* The shape hits of this tick that belong to an entity
HitsOf(entity, hits, w) ==
    {h \in SeqRange(hits) : h.entity \in w.colliders /\ ColliderBody(h.entity) = entity}

\* C16: in Neighborhood and in NearbyObstacles, when several colliders of
\* one entity are found in a tick, the snapshot recorded for the entity is
\* the one of smallest distance, whatever the order of iteration.
C16_ClosestColliderRecorded ==
    /\ NeighborsSensed =>
          \A e \in DOMAIN Unwrap(ret) :
             LET ds == UNION {PairDistances(call.agent_colliders, c, call.world) :
                                c \in CollidersOf(e, call.candidates, call.world)}
             IN  ds # {} => Unwrap(ret)[e].distance = SetMin(ds)
    /\ ObstaclesSensed =>
          \A e \in DOMAIN Unwrap(ret) :
             LET hs == HitsOf(e, call.hits, call.world)
             IN  /\ Unwrap(ret)[e].distance = SetMin({h.distance : h \in hs})
                 /\ \E h \in hs :
                       /\ h.distance = Unwrap(ret)[e].distance
                       /\ Unwrap(ret)[e].impact_normals = Some(<<h.normal1, h.normal2>>)

\* The Neighborhood half of C16 alone
C16_NeighborhoodKeepsClosest ==
    NeighborsSensed =>
       \A e \in DOMAIN Unwrap(ret) :
          LET ds == UNION {PairDistances(call.agent_colliders, c, call.world) :
                             c \in CollidersOf(e, call.candidates, call.world)}
          IN  ds # {} => Unwrap(ret)[e].distance = SetMin(ds)

\* C17: the number of entries of NearbyObstacles never exceeds the cap on
\* tracked obstacles (5 by default); hits after the cap is reached are dropped.
C17_ObstaclesCapped ==
    /\ ObstaclesSensed => Cardinality(DOMAIN Unwrap(ret)) <= 5
    /\ pc \in AfterSensing =>
          \A a \in Agents :
             nearby_obstacles[a] # None =>
                Cardinality(DOMAIN Unwrap(nearby_obstacles[a])) <= 5

ChaseBehavior == IF call.fn = "pursuit_run" THEN "Pursuit" ELSE "Evasion"

ChaseDone == pc = "pure" /\ call.fn \in {"pursuit_run", "evasion_run"} /\ ret # None

\* The target of the agent is None, despawned, or lacks a transform or a velocity
ChaseTargetMissing(p) ==
    \/ p.target = None
    \/ Unwrap(p.target) \notin DOMAIN call.entities
    \/ call.entities[Unwrap(p.target)].transform = None
    \/ call.entities[Unwrap(p.target)].velocity = None

\* C18: a Pursuit or Evasion whose target is None, or names an entity that
\* no longer exists or lacks a transform or a velocity, leaves the agent's
\* entry absent after the pass even if it was present before; the other
\* agents of the pass are still evaluated and the other behaviours' entries
\* are untouched.
C18_MissingTargetClearsEntry ==
    ChaseDone =>
       \A i \in DOMAIN call.agents :
          LET p == call.agents[i]
              after == Unwrap(ret)[p.entity]
              before == call.before[p.entity]
          IN  /\ ChaseTargetMissing(p) => after[ChaseBehavior] = None
              /\ \A b \in DOMAIN after : b # ChaseBehavior => after[b] = before[b]
              /\ (~ChaseTargetMissing(p) /\ p.radius = (IF ChaseBehavior = "Pursuit"
                                                         THEN ONE ELSE 10 * ONE)) =>
                    /\ after[ChaseBehavior] # None
                    /\ \E s \in Slots : Unwrap(after[ChaseBehavior]).interest_map[s] > 0

C18_Witness ==
    /\ ChaseDone
    /\ ChaseTargetMissing(call.agents[1])
    /\ call.agents[1].target = Some(6)
    /\ call.before[call.agents[1].entity][ChaseBehavior] # None
    /\ Unwrap(ret)[call.agents[1].entity][ChaseBehavior] = None
    /\ ~ChaseTargetMissing(call.agents[2])
    /\ Unwrap(ret)[call.agents[2].entity][ChaseBehavior] # None

\* The target of behaviour b coincides with the position of agent a (distance
\* 0), with a zero target_radius for Seek and Approach, and b has run
AtTarget(a, b) ==
    /\ pc = "behaviors"
    /\ b \notin pending
    /\ behaviors[a][b] # None
    /\ Unwrap(behaviors[a][b]).target = translation[a]
    /\ b \in {"Seek", "Approach"} => Unwrap(behaviors[a][b]).target_radius = 0

FiniteUnitMaps(t) ==
    \A i \in Slots : /\ t.interest_map[i] \in 0..ONE
                      /\ t.danger_map[i] \in 0..ONE

\* C19: when the agent's position coincides with the target of Seek,
\* Approach or Flee (distance 0, target_radius 0 for Seek and Approach), the
\* evaluator writes no NaN or non-finite value into SteeringOutputs: the
\* entry is cleared, or its maps are finite and within [0, 1].
C19_NoNaNAtTarget ==
    \A a \in Agents : \A b \in {"Seek", "Approach", "Flee"} :
       AtTarget(a, b) =>
          \/ outputs[a][b] = None
          \/ FiniteUnitMaps(Unwrap(outputs[a][b]))

C19_Witness ==
    \E a \in Agents :
       /\ pending = {}
       /\ \A b \in {"Seek", "Approach", "Flee"} :
             /\ AtTarget(a, b)
             /\ outputs[a][b] # None
             /\ \A i \in Slots : Unwrap(outputs[a][b]).interest_map[i] = 0
       /\ Unwrap(behaviors[a]["Flee"]).radius > 0
       /\ \E i \in Slots : Unwrap(outputs[a]["Seek"]).danger_map[i] > 0

\* C20: a distance query that fails skips that pair of colliders only; a
\* candidate whose every query fails, or an agent without colliders, is not
\* recorded with an infinite distance: every stored ComputedNeighbor has a
\* finite distance.
C20_StoredDistancesFinite ==
    /\ NeighborsSensed =>
          \A e \in DOMAIN Unwrap(ret) : Unwrap(ret)[e].distance < INFINITY
    /\ pc \in AfterSensing =>
          \A a \in Agents : \A e \in DOMAIN neighborhood[a] :
             neighborhood[a][e].distance < INFINITY

CrowdDone == pc = "pure" /\ call.fn \in {"seek_run", "flee_run"} /\ ret # None

CrowdDistance(a) ==
    VLength(VSub(Unwrap(call.components[a]).target, call.positions[a]))

\* C21: in every pass the Seek (resp. Flee) entry of each agent carrying
\* the component is recomputed from its own position and configuration: it
\* is cleared exactly when the agent is within target_radius (resp. at
\* distance >= radius) and otherwise set with interest toward (resp. away
\* from) the target, whatever the other agents of the pass do and whatever
\* the iteration order.
C21_EveryAgentEvaluated ==
    CrowdDone =>
       \A a \in Crowd :
          LET cfg == Unwrap(call.components[a])
              to_target == VNormalize(VSub(cfg.target, call.positions[a]))
              after == Unwrap(ret)[a]
          IN  /\ call.fn = "seek_run" =>
                    IF CrowdDistance(a) < cfg.target_radius
                    THEN after["Seek"] = None
                    ELSE /\ after["Seek"] # None
                         /\ Unwrap(after["Seek"]).interest_map
                               = set_interest(SteeringTargetDefault, to_target).interest_map
              /\ call.fn = "flee_run" =>
                    IF CrowdDistance(a) >= cfg.radius
                    THEN after["Flee"] = None
                    ELSE /\ after["Flee"] # None
                         /\ Unwrap(after["Flee"]).interest_map
                               = set_interest(SteeringTargetDefault,
                                              VNeg(to_target)).interest_map

DirectionalMove == MoveApplied /\ call.agent.locomotion_mode = "Directional"

\* The target velocity and the demanded force of the call of move_agent
MoveTargetVelocity == TargetVelocity(call.agent, Unwrap(ret).heading, call.speed_mask)

MoveDemand == DemandForce(MoveTargetVelocity, call.body)

\* The same body seen in a mirror: what was a right turn is a left turn
Mirrored(b) == [b EXCEPT !.right = VNeg(@)]

\* C22: for a Directional agent with turn_priority in [0,1] the factor by
\* which the lateral demand scales the forward force lies in [0,1] for
\* either sign of the lateral force: the forward force after suppression is
\* never larger in magnitude than before, is unchanged when turn_priority is
\* 0 or the demand is purely forward, and is the same for a left and a right
\* turn of equal size.
C22_SuppressionOnlyBrakes ==
    (DirectionalMove /\ call.agent.turn_priority \in 0..ONE) =>
       LET factor == ForwardSuppression(call.agent, MoveDemand, call.body)
           before == VDot(MoveDemand, call.body.forward)
       IN  /\ factor \in 0..ONE
           /\ Abs(FMul(before, factor)) <= Abs(before)
           /\ (call.agent.turn_priority = 0 \/ VDot(MoveDemand, call.body.right) = 0)
                 => FMul(before, factor) = before
           /\ ForwardSuppression(call.agent, MoveDemand, Mirrored(call.body)) = factor

\* C23: a Directional agent whose forward axis has a negative dot product
\* with the direction of the target velocity gets no force along its forward
\* axis in that tick: the forward force is scaled by
\* max(0, dot(forward, normalize(target_velocity))).
C23_NoThrustFacingAway ==
    DirectionalMove =>
       /\ HeadingAlignment(call.body, MoveTargetVelocity) < 0
             => Unwrap(ret).force = Vec3ZERO
       /\ Unwrap(ret).force
             = VClamp(VScale(call.body.forward,
                             FMul(FMul(VDot(MoveDemand, call.body.forward),
                                       ForwardSuppression(call.agent, MoveDemand, call.body)),
                                  FMax(HeadingAlignment(call.body, MoveTargetVelocity), 0))),
                      VNeg(call.agent.max_force), call.agent.max_force)

\* C24: for a Directional agent whose resolved heading is the zero vector
\* the heading-error term of the angular controller is zero: the applied
\* torque is exactly the clamped damping term, and it is zero whenever the
\* angular velocity is zero.
C24_ZeroHeadingOnlyDamps ==
    (DirectionalMove /\ Unwrap(ret).heading = Vec3ZERO) =>
       /\ Unwrap(ret).torque
             = Some(VClamp(VNeg(AngularDamping(call.body)),
                           VNeg(call.agent.max_torque), call.agent.max_torque))
       /\ call.body.angular_velocity = Vec3ZERO => Unwrap(ret).torque = Some(Vec3ZERO)

C24_Witness ==
    /\ DirectionalMove
    /\ Unwrap(ret).heading = Vec3ZERO
    /\ call.body.angular_velocity # Vec3ZERO
    /\ Unwrap(Unwrap(ret).torque)[2] = -100 * ONE
    /\ call.body.forward = <<0, 0, -ONE>>

\* u is a scalar multiple of v, up to the rounding of the last digit
Parallel(u, v) == \A i \in 1..3 : Abs(VCross(u, v)[i]) <= Tol

\* C25: the linear force a Directional agent receives is parallel to its
\* forward axis, also after the max_force clamp; an OmniDirectional agent
\* receives no torque and no impulse.
C25_DirectionalForceAlongForward ==
    MoveApplied =>
       /\ call.agent.locomotion_mode = "Directional"
             => Parallel(Unwrap(ret).force, call.body.forward)
       /\ call.agent.locomotion_mode = "OmniDirectional"
             => Unwrap(ret).torque = None /\ Unwrap(ret).linear_impulse = None

\* Distances at which the arrival speed is sampled
DistanceSamples == {500 * n : n \in 0..24}

FlockDone(fn) == pc = "pure" /\ call.fn = fn /\ ret # None

\* Distance from the agent to the closest point on neighbour e
SeparationDistance(e) ==
    VLength(VSub(call.agent_pos, Unwrap(call.neighbors[e].closest_points)[2]))

\* The neighbours that push the agent away
Contributing ==
    {e \in DOMAIN call.neighbors :
        /\ call.neighbors[e].closest_points # None
        /\ SeparationDistance(e) >= 1
        /\ SeparationDistance(e) < call.separate.desired_radius}

SeparationWeight(e) ==
    ONE - RoundDiv(SeparationDistance(e) * ONE, call.separate.desired_radius)

RECURSIVE WeightedAway(_)
WeightedAway(es) ==
    IF es = {} THEN Vec3ZERO
    ELSE LET e == CHOOSE x \in es : TRUE
         IN  VAdd(VScale(VNormalize(VSub(call.agent_pos,
                                         Unwrap(call.neighbors[e].closest_points)[2])),
                         SeparationWeight(e)),
                  WeightedAway(es \ {e}))

Panicking == {e \in Contributing : SeparationDistance(e) < call.separate.panic_radius}

\* The slot whose direction is nearest to v
NearestSlot(v) ==
    CHOOSE s \in Slots : \A j \in Slots : VDot(slot_to_dir(j), v) <= VDot(slot_to_dir(s), v)

\* C27: Separation sets its entry exactly when some neighbour's closest point
\* lies at a distance d with 0.001 <= d < desired_radius; the interest peaks
\* along the normalized sum of the away directions weighted 1 - d/desired_radius,
\* the danger peaks opposite with the largest weight, and the urgency is the
\* largest 1 - d/panic_radius of the contributing neighbours inside the
\* panic radius (0 when there is none)
C27_SeparationFromNeighbors ==
    FlockDone("separation_run") =>
        LET entry == Unwrap(ret)["Separation"]
            sum == WeightedAway(Contributing)
            largest == SetMax({SeparationWeight(e) : e \in Contributing})
            peak == NearestSlot(sum)
            opposite == NearestSlot(VNeg(sum))
        IN  /\ (entry # None) <=> (Contributing # {})
            /\ entry # None =>
                 LET t == Unwrap(entry)
                 IN  /\ t.interest_map =
                            set_interest(SteeringTargetDefault,
                                         VNormalizeOrZero(sum)).interest_map
                     /\ \A s \in Slots : /\ t.interest_map[s] <= t.interest_map[peak]
                                          /\ t.danger_map[s] <= t.danger_map[opposite]
                     /\ sum # Vec3ZERO =>
                            /\ t.interest_map[peak] >= 980 - Tol
                            /\ t.danger_map[opposite] <= largest + Tol
                            /\ t.danger_map[opposite] >= FMul(largest, 980) - Tol
                            /\ t.interest_map[opposite] = 0
                            /\ t.danger_map[peak] = 0
                     /\ t.urgency =
                            IF Panicking = {} THEN 0
                            ELSE SetMax({ONE - RoundDiv(SeparationDistance(e) * ONE,
                                                        call.separate.panic_radius)
                                            : e \in Panicking})

\* Two neighbours contribute with different weights, one of them inside the
\* panic radius
C27_Witness ==
    /\ FlockDone("separation_run")
    /\ Cardinality(Contributing) = 2
    /\ Cardinality(Panicking) = 1
    /\ Cardinality({SeparationWeight(e) : e \in Contributing}) = 2
    /\ Unwrap(ret)["Separation"] # None
    /\ Unwrap(Unwrap(ret)["Separation"]).urgency > 0
    /\ call.before["Separation"] # None

RECURSIVE VelocitySum(_)
VelocitySum(es) ==
    IF es = {} THEN Vec3ZERO
    ELSE LET e == CHOOSE x \in es : TRUE
         IN  VAdd(call.neighbors[e].velocity, VelocitySum(es \ {e}))

\* The mean of the velocities of the neighbours of the call
NeighborMean ==
    LET total == VelocitySum(DOMAIN call.neighbors)
    IN  [i \in 1..3 |-> RoundDiv(total[i], Cardinality(DOMAIN call.neighbors))]

PathDone == pc = "pure" /\ call.fn = "path_following_run" /\ ret # None

\* Length of a polyline
RECURSIVE PathLength(_)
PathLength(path) ==
    IF Len(path) < 2 THEN 0
    ELSE VLength(VSub(path[2], path[1])) + PathLength(Tail(path))

\* The point at arclength s from the first waypoint of a polyline
RECURSIVE PointAtArc(_, _)
PointAtArc(path, s) ==
    IF Len(path) = 1 THEN path[1]
    ELSE LET len == VLength(VSub(path[2], path[1]))
         IN  IF len > 0 /\ s < len
             THEN VAdd(path[1], VScale(VSub(path[2], path[1]), RoundDiv(s * ONE, len)))
             ELSE PointAtArc(Tail(path), s - len)

PredictedPosition ==
    VAdd(call.agent_pos, VScale(call.velocity, call.path_following.prediction_time))

\* The path point nearest to the predicted position, with its segment
NearestOnPath == Unwrap(nearest_point_on_path(call.path_following.path, PredictedPosition))

\* Arclength of the nearest path point
NearestArc ==
    PathLength(SubSeq(call.path_following.path, 1, NearestOnPath.segment + 1))
        + VLength(VSub(NearestOnPath.point,
                       call.path_following.path[NearestOnPath.segment + 1]))

\* The lookahead point: target_distance ahead of the nearest point, or the
\* end of the path when less than that remains
Carrot ==
    PointAtArc(call.path_following.path,
               FMin(NearestArc + call.path_following.target_distance,
                    PathLength(call.path_following.path)))

OffTube == VLength(VSub(PredictedPosition, NearestOnPath.point)) > call.path_following.path_radius

Near(u, v) == \A i \in 1..3 : u[i] - v[i] <= Tol /\ v[i] - u[i] <= Tol

\* The interest of t is that of the direction from the agent to point
Toward(t, point) ==
    LET want == set_interest(SteeringTargetDefault,
                             VNormalize(VSub(point, call.agent_pos))).interest_map
    IN  \A s \in Slots : /\ t.interest_map[s] - want[s] <= Tol
                         /\ want[s] - t.interest_map[s] <= Tol

WithinEpsilon(point) ==
    VDot(VSub(point, call.agent_pos), VSub(point, call.agent_pos)) < 10

\* The walk of target_point_ahead from the nearest path point
CarrotWalk ==
    TargetWalk(call.path_following.path, call.path_following.target_distance,
               NearestOnPath.point, NearestOnPath.segment, 0)

\* The nearest path point is no farther from the predicted position than
\* any point of any segment, and the walk ends within one step per segment
\* on the lookahead point
WalkReachesCarrot ==
    LET path == call.path_following.path
    IN  /\ \A i \in 1..(Len(path) - 1) :
               NearestOnPath.dist_sq <=
                   VDistanceSquared(PredictedPosition,
                       nearest_point_on_segment(PredictedPosition, path[i], path[i + 1]))
        /\ Len(path) >= 2 =>
               /\ CarrotWalk.steps <= Len(path) - 1
               /\ Near(CarrotWalk.point, Carrot)
        /\ Near(target_point_ahead(call.path_following, NearestOnPath.point,
                                   NearestOnPath.segment), Carrot)
        /\ NearestArc <= PathLength(path)

\* C29 as stated: whenever PathFollowing sets an entry its interest points
\* from the agent toward the lookahead point on the path
C29_InterestTowardCarrot ==
    (PathDone /\ Unwrap(ret)["PathFollowing"] # None) =>
        Toward(Unwrap(Unwrap(ret)["PathFollowing"]), Carrot)

\* C29 amended: the entry is cleared exactly when the path is empty or the
\* chosen point is within epsilon of the agent; otherwise its interest points
\* from the agent toward the chosen point, which is the lookahead point (at
\* arclength min(target_distance, remaining length) ahead of the path point
\* nearest to the predicted position, reached by a terminating walk that
\* stops at the last waypoint) while the predicted position is within
\* path_radius of the path, and the nearest path point itself when it is
\* farther away
C29_InterestTowardCarrotInsideTube ==
    PathDone =>
        LET entry == Unwrap(ret)["PathFollowing"]
        IN  IF call.path_following.path = <<>> THEN entry = None
            ELSE LET chosen == IF OffTube THEN NearestOnPath.point ELSE Carrot
                 IN  /\ WalkReachesCarrot
                     /\ (entry = None) <=> WithinEpsilon(chosen)
                     /\ entry # None => Toward(Unwrap(entry), chosen)

\* A moving agent inside the tube whose walk crosses a repeated waypoint and
\* stops at the end of the path
C29_Witness ==
    /\ PathDone
    /\ Len(call.path_following.path) = 4
    /\ call.velocity # Vec3ZERO
    /\ ~OffTube
    /\ CarrotWalk.steps = 3
    /\ Carrot = Point(4, 3)
    /\ Unwrap(ret)["PathFollowing"] # None
    /\ call.before["PathFollowing"] # None

\* into_heading has resolved a target combined from at least one behaviour
\* entry and no sector is left with interest after the danger mask
NoInterestLeft ==
    /\ pc = "pure"
    /\ call.fn = "into_heading"
    /\ ret # None
    /\ Unwrap(ret).heading # None
    /\ call.targets # <<>>
    /\ \A s \in Slots :
          MaskedInterest(Unwrap(ret).combined, call.danger_sensitivity)[s] = 0

\* C30: when every present behaviour expresses zero interest in all 16
\* sectors, or all interest lies in sectors masked out by danger,
\* into_heading returns the zero vector whatever the fused speed and
\* urgency are
C30_NoInterestNoHeading ==
    NoInterestLeft => Unwrap(Unwrap(ret).heading) = Vec3ZERO
====
